---- MODULE Spec2Model ----
(***************************************************************************)
(* rent-a-bot: the in-memory resource locking engine of                    *)
(* rentabot/controllers.py.                                                *)
(*                                                                         *)
(* Time is counted in clock ticks, TicksPerSec ticks to the second, so     *)
(* that two datetimes may differ by a fraction of a second while every     *)
(* ttl is a whole number of seconds (timedelta(seconds=ttl)).              *)
(* An Optional[datetime] is <<>> for None and <<t>> for the datetime t.    *)
(* A lock token is 0 for the empty string "" and n > 0 for the n-th        *)
(* str(uuid4()) drawn by the process.                                      *)
(***************************************************************************)
EXTENDS Integers, Sequences, FiniteSets, TLC

VARIABLES resources_by_id, reservations_by_id, reservation_count, now, uuid_count,
          reaper, scheduler, last, mutexes

vars == <<resources_by_id, reservations_by_id, reservation_count, now, uuid_count,
          reaper, scheduler, last, mutexes>>

catalog_state == <<resources_by_id, reservations_by_id, reservation_count, now,
                   uuid_count, reaper, scheduler, last>>

reservation_side == <<reservations_by_id, reservation_count, scheduler>>

NoOutcome == [op |-> "none", id |-> 0, result |-> "none"]

idle == last = NoOutcome

(* ------------------------------ bounds --------------------------------- *)

TicksPerSec == 2

MaxTime == 3

MaxUuid == 2

MaxTTL == 3

(* ------------------------------ values --------------------------------- *)

None == <<>>

Some(t) == <<t>>

EmptyToken == 0

NoneToken == 0 - 1

seconds(n) == n * TicksPerSec

TTLValues == 0..MaxTTL

(* ------------------------------ strings -------------------------------- *)

RECURSIVE split(_, _)
split(s, sep) ==
    IF \E i \in 1..Len(s) : s[i] = sep
    THEN LET i == CHOOSE k \in 1..Len(s) :
                     s[k] = sep /\ \A j \in 1..(k - 1) : s[j] # sep
         IN <<SubSeq(s, 1, i - 1)>> \o split(SubSeq(s, i + 1, Len(s)), sep)
    ELSE <<s>>

RECURSIVE strip(_)
strip(s) ==
    IF s = <<>> THEN s
    ELSE IF Head(s) = " " THEN strip(Tail(s))
    ELSE IF s[Len(s)] = " " THEN strip(SubSeq(s, 1, Len(s) - 1))
    ELSE s

parsed_tags(tags) ==
    LET parts == split(tags, ",")
    IN {strip(parts[i]) : i \in {k \in 1..Len(parts) : strip(parts[k]) # <<>>}}

set(l) == {l[i] : i \in 1..Len(l)}

has_all_tags(resource, tags) ==
    /\ resource.tags # <<>>
    /\ (parsed_tags(resource.tags) \cap set(tags)) = set(tags)

(* ------------------------------ catalog -------------------------------- *)

Resource(id, tags, max_lock_duration) ==
    [id |-> id,
     tags |-> tags,
     max_lock_duration |-> max_lock_duration,
     lock_token |-> EmptyToken,
     lock_details |-> <<"Resource available">>,
     lock_acquired_at |-> None,
     lock_expires_at |-> None]

(* the limit of a resource built without one, in seconds: the loader never
   passes a limit, so every resource it loads has this one *)
max_lock_duration_default == 2

Catalog ==
    <<Resource(1, <<"a", ",", " ", "b">>, max_lock_duration_default),
      Resource(2, <<"a">>, max_lock_duration_default)>>

ResourceIds == 1..Len(Catalog)

RequestIds == 1..(Len(Catalog) + 1)

get_all_resources == [i \in 1..Len(resources_by_id) |-> resources_by_id[i]]

(* ------------------------------ lock manager --------------------------- *)

IssuedTokens == 1..uuid_count

RequestTokens == IssuedTokens \cup {EmptyToken, NoneToken}

uuid4 == uuid_count + 1

int_total_seconds(d) ==
    IF d >= 0 THEN d \div TicksPerSec ELSE 0 - ((0 - d) \div TicksPerSec)

(* the checks of lock_resource without the test of the current token *)
lock_resource_check_unlocked_only(resource, ttl) ==
    IF ttl > resource.max_lock_duration THEN "InvalidTTL"
    ELSE "ok"

lock_resource_check(resource, ttl) ==
    IF resource.lock_token # EmptyToken THEN "ResourceAlreadyLocked"
    ELSE IF ttl > resource.max_lock_duration THEN "InvalidTTL"
    ELSE "ok"

lock_resource_update(resource, token, ttl) ==
    [resource EXCEPT !.lock_token = token,
                     !.lock_details = <<"Resource locked">>,
                     !.lock_acquired_at = Some(now),
                     !.lock_expires_at = Some(now + seconds(ttl))]

lock_resource(resource_id, ttl) ==
    /\ idle
    /\ IF resource_id \notin DOMAIN resources_by_id
       THEN /\ last' = [op |-> "lock_resource", id |-> resource_id, result |-> "ResourceNotFound"]
            /\ UNCHANGED <<resources_by_id, now, uuid_count, reaper, reservation_side, mutexes>>
       ELSE LET resource == resources_by_id[resource_id]
                result == lock_resource_check(resource, ttl)
            IN IF result # "ok"
               THEN /\ last' = [op |-> "lock_resource", id |-> resource_id, result |-> result]
                    /\ UNCHANGED <<resources_by_id, now, uuid_count, reaper, reservation_side, mutexes>>
               ELSE /\ uuid_count < MaxUuid
                    /\ resources_by_id' =
                           [resources_by_id EXCEPT
                               ![resource_id] = lock_resource_update(resource, uuid4, ttl)]
                    /\ uuid_count' = uuid_count + 1
                    /\ last' = [op |-> "lock_resource", id |-> resource_id, result |-> "ok"]
                    /\ UNCHANGED <<now, reaper, reservation_side, mutexes>>

(* the checks of unlock_resource without the comparison of the tokens *)
unlock_resource_check_any_token(resource, lock_token) ==
    IF resource.lock_token = EmptyToken THEN "ResourceAlreadyUnlocked"
    ELSE "ok"

(* the checks of unlock_resource with the comparison of the tokens made first *)
unlock_resource_check_token_first(resource, lock_token) ==
    IF lock_token # resource.lock_token THEN "InvalidLockToken"
    ELSE IF resource.lock_token = EmptyToken THEN "ResourceAlreadyUnlocked"
    ELSE "ok"

unlock_resource_check(resource, lock_token) ==
    IF resource.lock_token = EmptyToken THEN "ResourceAlreadyUnlocked"
    ELSE IF lock_token # resource.lock_token THEN "InvalidLockToken"
    ELSE "ok"

(* the update of unlock_resource that keeps the expiry of the lock *)
unlock_resource_update_keeps_expiry(resource) ==
    [resource EXCEPT !.lock_token = EmptyToken,
                     !.lock_details = <<"Resource available">>,
                     !.lock_acquired_at = None]

unlock_resource_update(resource) ==
    [resource EXCEPT !.lock_token = EmptyToken,
                     !.lock_details = <<"Resource available">>,
                     !.lock_acquired_at = None,
                     !.lock_expires_at = None]

unlock_resource(resource_id, lock_token) ==
    /\ idle
    /\ IF resource_id \notin DOMAIN resources_by_id
       THEN /\ last' = [op |-> "unlock_resource", id |-> resource_id, result |-> "ResourceNotFound"]
            /\ UNCHANGED <<resources_by_id, now, uuid_count, reaper, reservation_side, mutexes>>
       ELSE LET resource == resources_by_id[resource_id]
                result == unlock_resource_check(resource, lock_token)
            IN /\ last' = [op |-> "unlock_resource", id |-> resource_id, result |-> result]
               /\ resources_by_id' =
                      IF result = "ok"
                      THEN [resources_by_id EXCEPT
                               ![resource_id] = unlock_resource_update(resource)]
                      ELSE resources_by_id
               /\ UNCHANGED <<now, uuid_count, reaper, reservation_side, mutexes>>

total_duration(resource, new_expires_at, additional_ttl) ==
    IF resource.lock_acquired_at # None
    THEN int_total_seconds(new_expires_at - resource.lock_acquired_at[1])
    ELSE additional_ttl

(* the checks of extend_resource_lock without the comparison of the tokens *)
extend_resource_lock_check_any_token(resource, lock_token, additional_ttl) ==
    IF resource.lock_token = EmptyToken THEN "ResourceAlreadyUnlocked"
    ELSE IF total_duration(resource, now + seconds(additional_ttl), additional_ttl)
                > resource.max_lock_duration
         THEN "InvalidTTL"
    ELSE "ok"

extend_resource_lock_check(resource, lock_token, additional_ttl) ==
    IF resource.lock_token = EmptyToken THEN "ResourceAlreadyUnlocked"
    ELSE IF lock_token # resource.lock_token THEN "InvalidLockToken"
    ELSE IF total_duration(resource, now + seconds(additional_ttl), additional_ttl)
                > resource.max_lock_duration
         THEN "InvalidTTL"
    ELSE "ok"

(* the update of extend_resource_lock that adds to the previous expiry *)
extend_resource_lock_update_additive(resource, additional_ttl) ==
    [resource EXCEPT !.lock_expires_at =
                         Some(resource.lock_expires_at[1] + seconds(additional_ttl))]

extend_resource_lock_update(resource, additional_ttl) ==
    [resource EXCEPT !.lock_expires_at = Some(now + seconds(additional_ttl))]

extend_resource_lock(resource_id, lock_token, additional_ttl) ==
    /\ idle
    /\ IF resource_id \notin DOMAIN resources_by_id
       THEN /\ last' = [op |-> "extend_resource_lock", id |-> resource_id, result |-> "ResourceNotFound"]
            /\ UNCHANGED <<resources_by_id, now, uuid_count, reaper, reservation_side, mutexes>>
       ELSE LET resource == resources_by_id[resource_id]
                result == extend_resource_lock_check(resource, lock_token, additional_ttl)
            IN /\ last' = [op |-> "extend_resource_lock", id |-> resource_id, result |-> result]
               /\ resources_by_id' =
                      IF result = "ok"
                      THEN [resources_by_id EXCEPT
                               ![resource_id] =
                                   extend_resource_lock_update(resource, additional_ttl)]
                      ELSE resources_by_id
               /\ UNCHANGED <<now, uuid_count, reaper, reservation_side, mutexes>>

(* ------------------------------ expiration reaper ---------------------- *)

is_expired(resource, at) ==
    /\ resource.lock_token # EmptyToken
    /\ resource.lock_expires_at # None
    /\ resource.lock_expires_at[1] <= at

(* the update of the reaper that clears the timestamps and keeps the token *)
auto_expire_update_keeps_token(current, at) ==
    [current EXCEPT !.lock_details = <<"Auto-expired at ", at>>,
                    !.lock_acquired_at = None,
                    !.lock_expires_at = None]

auto_expire_update(current, at) ==
    [current EXCEPT !.lock_token = EmptyToken,
                    !.lock_details = <<"Auto-expired at ", at>>,
                    !.lock_acquired_at = None,
                    !.lock_expires_at = None]

expired_resources(snapshot, at) ==
    SelectSeq(snapshot, LAMBDA resource : is_expired(resource, at))

(* the re-check of the current record without the comparison of its expiry *)
still_expired_token_only(current, at) ==
    current.lock_token # EmptyToken

(* the re-check made on the current record before each unlock *)
still_expired(current, at) ==
    /\ current.lock_token # EmptyToken
    /\ current.lock_expires_at # None
    /\ current.lock_expires_at[1] <= at

reaper_idle == [pc |-> "sleep", now |-> 0, expired |-> <<>>]

auto_expire_locks_snapshot ==
    /\ idle
    /\ reaper.pc = "sleep"
    /\ LET expired == expired_resources(get_all_resources, now)
       IN reaper' = IF expired = <<>> THEN reaper_idle
                    ELSE [pc |-> "unlock", now |-> now,
                          expired |-> [i \in 1..Len(expired) |-> expired[i].id]]
    /\ last' = [op |-> "auto_expire_locks", id |-> 0, result |-> "snapshot"]
    /\ UNCHANGED <<resources_by_id, now, uuid_count, reservation_side, mutexes>>

auto_expire_locks_unlock ==
    /\ idle
    /\ reaper.pc = "unlock"
    /\ LET id == Head(reaper.expired)
           rest == Tail(reaper.expired)
           current == resources_by_id[id]
           expire == still_expired(current, reaper.now)
       IN /\ resources_by_id' =
                 IF expire
                 THEN [resources_by_id EXCEPT ![id] = auto_expire_update(current, reaper.now)]
                 ELSE resources_by_id
          /\ reaper' = IF rest = <<>> THEN reaper_idle
                       ELSE [reaper EXCEPT !.expired = rest]
          /\ last' = [op |-> "auto_expire_locks", id |-> id, result |-> IF expire THEN "expired" ELSE "kept"]
    /\ UNCHANGED <<now, uuid_count, reservation_side, mutexes>>

(* ------------------------------ batch locker --------------------------- *)

(* the available resources without the test that skips the locked ones *)
available_ignoring_lock(tags) ==
    SelectSeq(get_all_resources, LAMBDA resource : has_all_tags(resource, tags))

available(tags) ==
    SelectSeq(get_all_resources,
              LAMBDA resource : /\ resource.lock_token = EmptyToken
                                /\ has_all_tags(resource, tags))

(* the selection that takes the last quantity available resources *)
to_lock_last(tags, quantity) ==
    LET found == available(tags)
    IN SubSeq(found, IF quantity < Len(found) THEN Len(found) - quantity + 1 ELSE 1,
              Len(found))

(* the selection that takes every available resource, not the first quantity *)
to_lock_all(tags, quantity) ==
    available(tags)

to_lock(tags, quantity) ==
    LET found == available(tags)
    IN SubSeq(found, 1, IF quantity < Len(found) THEN quantity ELSE Len(found))

(* the checks of lock_resources_by_tags without the count of the available *)
lock_resources_by_tags_check_no_count(tags, quantity, ttl) ==
    IF \E i \in 1..Len(to_lock(tags, quantity)) :
           ttl > to_lock(tags, quantity)[i].max_lock_duration
    THEN "InvalidTTL"
    ELSE "ok"

lock_resources_by_tags_check(tags, quantity, ttl) ==
    IF Len(available(tags)) < quantity THEN "InsufficientResources"
    ELSE IF \E i \in 1..Len(to_lock(tags, quantity)) :
                ttl > to_lock(tags, quantity)[i].max_lock_duration
         THEN "InvalidTTL"
    ELSE "ok"

lock_resources_by_tags_update(resource, token, ttl) ==
    [resource EXCEPT !.lock_token = token,
                     !.lock_details = <<"Resource locked (reservation)">>,
                     !.lock_acquired_at = Some(now),
                     !.lock_expires_at = Some(now + seconds(ttl))]

(* the batch lock that draws one token for the whole group *)
locked_resources_one_token(tags, quantity, ttl) ==
    LET chosen == to_lock(tags, quantity)
    IN [i \in 1..Len(chosen) |->
            lock_resources_by_tags_update(chosen[i], uuid_count + 1, ttl)]

locked_resources(tags, quantity, ttl) ==
    LET chosen == to_lock(tags, quantity)
    IN [i \in 1..Len(chosen) |->
            lock_resources_by_tags_update(chosen[i], uuid_count + i, ttl)]

resources_after_lock_by_tags(tags, quantity, ttl) ==
    LET locked == locked_resources(tags, quantity, ttl)
    IN [id \in DOMAIN resources_by_id |->
            IF \E i \in 1..Len(locked) : locked[i].id = id
            THEN locked[CHOOSE i \in 1..Len(locked) : locked[i].id = id]
            ELSE resources_by_id[id]]

(* the search by token that stops at any locked resource *)
resource_with_token_any_locked(lock_token) ==
    SelectSeq(get_all_resources, LAMBDA resource : resource.lock_token # EmptyToken)

resource_with_token(lock_token) ==
    SelectSeq(get_all_resources, LAMBDA resource : resource.lock_token = lock_token)

unlock_resource_by_token_check(lock_token) ==
    IF resource_with_token(lock_token) = <<>> THEN "ResourceNotFound" ELSE "ok"

(* the update of unlock_resource_by_token that keeps the acquisition time *)
unlock_resource_by_token_update_keeps_acquired(resource) ==
    [resource EXCEPT !.lock_token = EmptyToken,
                     !.lock_details = <<"Resource available">>,
                     !.lock_expires_at = None]

unlock_resource_by_token_update(resource) ==
    [resource EXCEPT !.lock_token = EmptyToken,
                     !.lock_details = <<"Resource available">>,
                     !.lock_acquired_at = None,
                     !.lock_expires_at = None]

resources_after_unlock_by_token(lock_token) ==
    IF unlock_resource_by_token_check(lock_token) = "ok"
    THEN LET resource == Head(resource_with_token(lock_token))
         IN [resources_by_id EXCEPT
                ![resource.id] = unlock_resource_by_token_update(resource)]
    ELSE resources_by_id

lock_resources_by_tags(tags, quantity, ttl) ==
    /\ idle
    /\ LET result == lock_resources_by_tags_check(tags, quantity, ttl)
       IN IF result = "ok"
          THEN /\ uuid_count + quantity <= MaxUuid
               /\ resources_by_id' = resources_after_lock_by_tags(tags, quantity, ttl)
               /\ uuid_count' = uuid_count + quantity
               /\ last' = [op |-> "lock_resources_by_tags", id |-> quantity, result |-> "ok"]
          ELSE /\ last' = [op |-> "lock_resources_by_tags", id |-> quantity,
                           result |-> result]
               /\ UNCHANGED <<resources_by_id, uuid_count>>
    /\ UNCHANGED <<now, reaper, reservation_side, mutexes>>

unlock_resource_by_token(lock_token) ==
    /\ idle
    /\ resources_by_id' = resources_after_unlock_by_token(lock_token)
    /\ last' = [op |-> "unlock_resource_by_token", id |-> 0,
                result |-> unlock_resource_by_token_check(lock_token)]
    /\ UNCHANGED <<now, uuid_count, reaper, reservation_side, mutexes>>

(* ------------------------------ reservation manager -------------------- *)

ClaimWindow == 60

MaxReservations == 1

MaxQuantity == 2

MaxWait == 1

TagA == <<"a">>

TagB == <<"b">>

TagZ == <<"z">>

RequestTags == {<<>>, <<TagA>>, <<TagZ>>}

Reservation(reservation_id, tags, quantity, ttl, created_at, expires_at) ==
    [reservation_id |-> reservation_id,
     tags |-> tags,
     quantity |-> quantity,
     ttl |-> ttl,
     status |-> "pending",
     created_at |-> created_at,
     expires_at |-> expires_at,
     fulfilled_at |-> None,
     claim_expires_at |-> None,
     claimed_at |-> None,
     resource_ids |-> <<>>,
     lock_tokens |-> <<>>]

RECURSIVE ascending(_)
ascending(S) ==
    IF S = {} THEN <<>>
    ELSE LET m == CHOOSE x \in S : \A y \in S : x <= y
         IN <<m>> \o ascending(S \ {m})

reservations_values ==
    LET ids == ascending(DOMAIN reservations_by_id)
    IN [i \in 1..Len(ids) |-> reservations_by_id[ids[i]]]

RECURSIVE insert_by_created_at(_, _)
insert_by_created_at(sorted, r) ==
    IF sorted = <<>> THEN <<r>>
    ELSE IF r.created_at < Head(sorted).created_at THEN <<r>> \o sorted
    ELSE <<Head(sorted)>> \o insert_by_created_at(Tail(sorted), r)

RECURSIVE sort_by_created_at(_)
sort_by_created_at(l) ==
    IF l = <<>> THEN <<>>
    ELSE insert_by_created_at(sort_by_created_at(SubSeq(l, 1, Len(l) - 1)), l[Len(l)])

pending_reservations ==
    sort_by_created_at(SelectSeq(reservations_values, LAMBDA r : r.status = "pending"))

(* the count of the matching resources taken over the unlocked ones only *)
matching_count_of_available(tags) ==
    Len(available(tags))

matching_count(tags) ==
    Len(SelectSeq(get_all_resources, LAMBDA resource : has_all_tags(resource, tags)))

(* the checks of create_reservation without the test of the empty list *)
create_reservation_check_allows_empty(tags, quantity, ttl) ==
    IF matching_count(tags) = 0 THEN "ResourceNotFound"
    ELSE "ok"

create_reservation_check(tags, quantity, ttl) ==
    IF tags = <<>> THEN "InvalidReservationTags"
    ELSE IF matching_count(tags) = 0 THEN "ResourceNotFound"
    ELSE "ok"

remove(f, key) == [k \in (DOMAIN f) \ {key} |-> f[k]]

put(f, key, value) == [k \in (DOMAIN f) \cup {key} |-> IF k = key THEN value ELSE f[k]]

new_reservation_id == reservation_count + 1

create_reservation(tags, quantity, max_wait_time, ttl) ==
    /\ idle
    /\ LET result == create_reservation_check(tags, quantity, ttl)
       IN IF result # "ok"
          THEN /\ last' = [op |-> "create_reservation", id |-> 0, result |-> result]
               /\ UNCHANGED <<resources_by_id, now, uuid_count, reaper, reservation_side, mutexes>>
          ELSE /\ reservations_by_id' =
                      put(reservations_by_id, new_reservation_id,
                          Reservation(new_reservation_id, tags, quantity, ttl,
                                      now, now + seconds(max_wait_time)))
               /\ reservation_count' = new_reservation_id
               /\ last' = [op |-> "create_reservation", id |-> new_reservation_id,
                           result |-> "ok"]
               /\ UNCHANGED <<resources_by_id, now, uuid_count, reaper, scheduler, mutexes>>

(* the position counted from zero *)
position_in_queue_from_zero(reservation_id) ==
    LET pending == pending_reservations
    IN IF \E i \in 1..Len(pending) : pending[i].reservation_id = reservation_id
       THEN Some((CHOOSE i \in 1..Len(pending) :
                     /\ pending[i].reservation_id = reservation_id
                     /\ \A j \in 1..(i - 1) : pending[j].reservation_id # reservation_id)
                 - 1)
       ELSE None

position_in_queue(reservation_id) ==
    LET pending == pending_reservations
    IN IF \E i \in 1..Len(pending) : pending[i].reservation_id = reservation_id
       THEN Some(CHOOSE i \in 1..Len(pending) :
                    /\ pending[i].reservation_id = reservation_id
                    /\ \A j \in 1..(i - 1) : pending[j].reservation_id # reservation_id)
       ELSE None

with_position(reservation, position) ==
    [position_in_queue |-> position] @@ reservation

get_reservation(reservation_id) ==
    IF reservation_id \notin DOMAIN reservations_by_id THEN "ReservationNotFound"
    ELSE LET reservation == reservations_by_id[reservation_id]
         IN IF reservation.status = "pending"
            THEN with_position(reservation, position_in_queue(reservation_id))
            ELSE with_position(reservation, None)

list_reservations ==
    LET reservations == reservations_values
    IN [i \in 1..Len(reservations) |->
           IF reservations[i].status = "pending"
           THEN with_position(reservations[i],
                              position_in_queue(reservations[i].reservation_id))
           ELSE with_position(reservations[i], None)]

(* the checks of claim_reservation without the tests of the status *)
claim_reservation_check_any_status(reservation_id) ==
    IF reservation_id \notin DOMAIN reservations_by_id THEN "ReservationNotFound"
    ELSE LET reservation == reservations_by_id[reservation_id]
         IN IF /\ reservation.claim_expires_at # None
               /\ reservation.claim_expires_at[1] <= now
            THEN "ReservationClaimExpired"
            ELSE "ok"

(* the checks of claim_reservation with the window closing after its last instant *)
claim_reservation_check_late(reservation_id) ==
    IF reservation_id \notin DOMAIN reservations_by_id THEN "ReservationNotFound"
    ELSE LET reservation == reservations_by_id[reservation_id]
         IN IF reservation.status = "pending" THEN "ReservationNotFulfilled"
            ELSE IF reservation.status # "fulfilled" THEN "ReservationNotFound"
            ELSE IF /\ reservation.claim_expires_at # None
                    /\ reservation.claim_expires_at[1] < now
                 THEN "ReservationClaimExpired"
            ELSE "ok"

claim_reservation_check(reservation_id) ==
    IF reservation_id \notin DOMAIN reservations_by_id THEN "ReservationNotFound"
    ELSE LET reservation == reservations_by_id[reservation_id]
         IN IF reservation.status = "pending" THEN "ReservationNotFulfilled"
            ELSE IF reservation.status # "fulfilled" THEN "ReservationNotFound"
            ELSE IF /\ reservation.claim_expires_at # None
                    /\ reservation.claim_expires_at[1] <= now
                 THEN "ReservationClaimExpired"
            ELSE "ok"

(* the update of claim_reservation that empties the tokens of the record *)
claim_reservation_update_drops_tokens(reservation) ==
    [reservation EXCEPT !.status = "claimed", !.claimed_at = Some(now),
                        !.lock_tokens = <<>>]

claim_reservation_update(reservation) ==
    [reservation EXCEPT !.status = "claimed", !.claimed_at = Some(now)]

claim_reservation(reservation_id) ==
    /\ idle
    /\ LET result == claim_reservation_check(reservation_id)
       IN /\ last' = [op |-> "claim_reservation", id |-> reservation_id, result |-> result]
          /\ reservations_by_id' =
                 IF result = "ok"
                 THEN [reservations_by_id EXCEPT
                          ![reservation_id] =
                              claim_reservation_update(reservations_by_id[reservation_id])]
                 ELSE reservations_by_id
          /\ UNCHANGED <<resources_by_id, reservation_count, now, uuid_count, reaper, scheduler, mutexes>>

(* the checks of cancel_reservation that refuse a claimed reservation only *)
cancel_reservation_check_claimed_only(reservation_id) ==
    IF reservation_id \notin DOMAIN reservations_by_id THEN "ReservationNotFound"
    ELSE IF reservations_by_id[reservation_id].status = "claimed"
         THEN "ReservationCannotBeCancelled"
    ELSE "ok"

cancel_reservation_check(reservation_id) ==
    IF reservation_id \notin DOMAIN reservations_by_id THEN "ReservationNotFound"
    ELSE IF reservations_by_id[reservation_id].status \in {"fulfilled", "claimed"}
         THEN "ReservationCannotBeCancelled"
    ELSE "ok"

cancel_reservation(reservation_id) ==
    /\ idle
    /\ LET result == cancel_reservation_check(reservation_id)
       IN /\ last' = [op |-> "cancel_reservation", id |-> reservation_id, result |-> result]
          /\ reservations_by_id' =
                 IF result = "ok"
                 THEN remove(reservations_by_id, reservation_id)
                 ELSE reservations_by_id
          /\ UNCHANGED <<resources_by_id, reservation_count, now, uuid_count, reaper, scheduler, mutexes>>

(* ------------------------------ fulfillment scheduler ------------------ *)

(* the pending reservations of the snapshot whose wait ended before the tick *)
expired_pending_strict(snapshot, at) ==
    LET found == SelectSeq(snapshot,
                           LAMBDA r : r.status = "pending" /\ r.expires_at < at)
    IN [i \in 1..Len(found) |-> found[i].reservation_id]

(* the first cleanup of the scheduler finding nothing to delete *)
expired_pending_none(snapshot, at) ==
    <<>>

expired_pending(snapshot, at) ==
    LET found == SelectSeq(snapshot,
                           LAMBDA r : r.status = "pending" /\ r.expires_at <= at)
    IN [i \in 1..Len(found) |-> found[i].reservation_id]

expired_fulfilled(snapshot, at) ==
    LET found == SelectSeq(snapshot,
                           LAMBDA r : /\ r.status = "fulfilled"
                                      /\ r.claim_expires_at # None
                                      /\ r.claim_expires_at[1] <= at)
    IN [i \in 1..Len(found) |->
            [reservation_id |-> found[i].reservation_id,
             lock_tokens |-> found[i].lock_tokens]]

(* kept_waiting: the reservations of the tick's list whose iteration ended
   in the continue of InsufficientResources *)
scheduler_idle ==
    [pc |-> "sleep", now |-> 0,
     expired_pending |-> <<>>, expired_fulfilled |-> <<>>,
     pending |-> <<>>, kept_waiting |-> {}, locked |-> <<>>, fulfilled_at |-> 0]

after_cleanup(s) ==
    [s EXCEPT !.pc = IF s.expired_pending # <<>> THEN "expire_pending"
                     ELSE IF s.expired_fulfilled # <<>> THEN "expire_fulfilled"
                     ELSE "list_pending"]

after_attempt(s) ==
    IF s.pending = <<>> THEN scheduler_idle
    ELSE [s EXCEPT !.pc = "fulfill", !.locked = <<>>, !.fulfilled_at = 0]

auto_fulfill_reservations_snapshot ==
    /\ idle
    /\ scheduler.pc = "sleep"
    /\ scheduler' =
           after_cleanup([scheduler EXCEPT
               !.now = now,
               !.expired_pending = expired_pending(reservations_values, now),
               !.expired_fulfilled = expired_fulfilled(reservations_values, now)])
    /\ last' = [op |-> "auto_fulfill_reservations", id |-> 0, result |-> "snapshot"]
    /\ UNCHANGED <<resources_by_id, reservations_by_id, reservation_count, now, uuid_count, reaper, mutexes>>

still_expired_pending(res_id, at) ==
    /\ res_id \in DOMAIN reservations_by_id
    /\ reservations_by_id[res_id].status = "pending"
    /\ reservations_by_id[res_id].expires_at <= at

auto_fulfill_reservations_expire_pending ==
    /\ idle
    /\ scheduler.pc = "expire_pending"
    /\ LET res_id == Head(scheduler.expired_pending)
           expire == still_expired_pending(res_id, scheduler.now)
       IN /\ reservations_by_id' =
                 IF expire THEN remove(reservations_by_id, res_id) ELSE reservations_by_id
          /\ scheduler' =
                 after_cleanup([scheduler EXCEPT
                                   !.expired_pending = Tail(scheduler.expired_pending)])
          /\ last' = [op |-> "auto_fulfill_reservations", id |-> res_id,
                      result |-> IF expire THEN "pending_expired" ELSE "pending_kept"]
    /\ UNCHANGED <<resources_by_id, reservation_count, now, uuid_count, reaper, mutexes>>

auto_fulfill_reservations_unlock ==
    /\ idle
    /\ scheduler.pc = "expire_fulfilled"
    /\ Head(scheduler.expired_fulfilled).lock_tokens # <<>>
    /\ LET reservation == Head(scheduler.expired_fulfilled)
           token == Head(reservation.lock_tokens)
       IN /\ resources_by_id' = resources_after_unlock_by_token(token)
          /\ scheduler' =
                 [scheduler EXCEPT
                     !.expired_fulfilled[1].lock_tokens = Tail(reservation.lock_tokens)]
          /\ last' = [op |-> "unlock_resource_by_token", id |-> reservation.reservation_id,
                      result |-> unlock_resource_by_token_check(token)]
    /\ UNCHANGED <<reservations_by_id, reservation_count, now, uuid_count, reaper, mutexes>>

(* the re-check before the deletion with the window closing after its last
   instant *)
still_expired_fulfilled_strict(res_id, at) ==
    /\ res_id \in DOMAIN reservations_by_id
    /\ reservations_by_id[res_id].status = "fulfilled"
    /\ reservations_by_id[res_id].claim_expires_at # None
    /\ reservations_by_id[res_id].claim_expires_at[1] < at

still_expired_fulfilled(res_id, at) ==
    /\ res_id \in DOMAIN reservations_by_id
    /\ reservations_by_id[res_id].status = "fulfilled"
    /\ reservations_by_id[res_id].claim_expires_at # None
    /\ reservations_by_id[res_id].claim_expires_at[1] <= at

auto_fulfill_reservations_expire_fulfilled ==
    /\ idle
    /\ scheduler.pc = "expire_fulfilled"
    /\ Head(scheduler.expired_fulfilled).lock_tokens = <<>>
    /\ LET res_id == Head(scheduler.expired_fulfilled).reservation_id
           expire == still_expired_fulfilled(res_id, scheduler.now)
       IN /\ reservations_by_id' =
                 IF expire THEN remove(reservations_by_id, res_id) ELSE reservations_by_id
          /\ scheduler' =
                 after_cleanup([scheduler EXCEPT
                                   !.expired_fulfilled = Tail(scheduler.expired_fulfilled)])
          /\ last' = [op |-> "auto_fulfill_reservations", id |-> res_id,
                      result |-> IF expire THEN "fulfilled_expired" ELSE "fulfilled_kept"]
    /\ UNCHANGED <<resources_by_id, reservation_count, now, uuid_count, reaper, mutexes>>

auto_fulfill_reservations_list_pending ==
    /\ idle
    /\ scheduler.pc = "list_pending"
    /\ scheduler' = after_attempt([scheduler EXCEPT !.pending = pending_reservations])
    /\ last' = [op |-> "auto_fulfill_reservations", id |-> 0, result |-> "list_pending"]
    /\ UNCHANGED <<resources_by_id, reservations_by_id, reservation_count, now, uuid_count, reaper, mutexes>>

auto_fulfill_reservations_lock ==
    /\ idle
    /\ scheduler.pc = "fulfill"
    /\ scheduler.locked = <<>>
    /\ LET reservation == Head(scheduler.pending)
           result == lock_resources_by_tags_check(reservation.tags, reservation.quantity,
                                                  reservation.ttl)
           locked == locked_resources(reservation.tags, reservation.quantity,
                                      reservation.ttl)
       IN IF result = "ok"
          THEN /\ uuid_count + reservation.quantity <= MaxUuid
               /\ resources_by_id' =
                      resources_after_lock_by_tags(reservation.tags, reservation.quantity,
                                                   reservation.ttl)
               /\ uuid_count' = uuid_count + reservation.quantity
               /\ scheduler' = [scheduler EXCEPT !.locked = locked, !.fulfilled_at = now]
               /\ last' = [op |-> "lock_resources_by_tags",
                           id |-> reservation.reservation_id, result |-> "ok"]
          ELSE /\ scheduler' =
                      after_attempt([scheduler EXCEPT
                          !.pending = Tail(scheduler.pending),
                          !.kept_waiting =
                              IF result = "InsufficientResources"
                              THEN @ \cup {reservation.reservation_id}
                              ELSE @])
               /\ last' = [op |-> "lock_resources_by_tags",
                           id |-> reservation.reservation_id, result |-> result]
               /\ UNCHANGED <<resources_by_id, uuid_count>>
    /\ UNCHANGED <<reservations_by_id, reservation_count, now, reaper, mutexes>>

still_pending(reservation_id) ==
    /\ reservation_id \in DOMAIN reservations_by_id
    /\ reservations_by_id[reservation_id].status = "pending"

(* the update of the fulfillment that opens the claim window at the time of
   the write, not at fulfilled_at *)
fulfill_update_window_from_now(current, locked, fulfilled_at) ==
    [current EXCEPT !.status = "fulfilled",
                    !.fulfilled_at = Some(fulfilled_at),
                    !.claim_expires_at = Some(now + seconds(ClaimWindow)),
                    !.resource_ids = [i \in 1..Len(locked) |-> locked[i].id],
                    !.lock_tokens = [i \in 1..Len(locked) |-> locked[i].lock_token]]

(* the update of the fulfillment that lists the tokens in the reverse order *)
fulfill_update_tokens_reversed(current, locked, fulfilled_at) ==
    [current EXCEPT !.status = "fulfilled",
                    !.fulfilled_at = Some(fulfilled_at),
                    !.claim_expires_at = Some(fulfilled_at + seconds(ClaimWindow)),
                    !.resource_ids = [i \in 1..Len(locked) |-> locked[i].id],
                    !.lock_tokens =
                        [i \in 1..Len(locked) |-> locked[Len(locked) + 1 - i].lock_token]]

fulfill_update(current, locked, fulfilled_at) ==
    [current EXCEPT !.status = "fulfilled",
                    !.fulfilled_at = Some(fulfilled_at),
                    !.claim_expires_at = Some(fulfilled_at + seconds(ClaimWindow)),
                    !.resource_ids = [i \in 1..Len(locked) |-> locked[i].id],
                    !.lock_tokens = [i \in 1..Len(locked) |-> locked[i].lock_token]]

auto_fulfill_reservations_mark ==
    /\ idle
    /\ scheduler.pc = "fulfill"
    /\ scheduler.locked # <<>>
    /\ LET reservation_id == Head(scheduler.pending).reservation_id
           mark == still_pending(reservation_id)
       IN /\ reservations_by_id' =
                 IF mark
                 THEN [reservations_by_id EXCEPT
                          ![reservation_id] =
                              fulfill_update(reservations_by_id[reservation_id],
                                             scheduler.locked, scheduler.fulfilled_at)]
                 ELSE reservations_by_id
          /\ scheduler' =
                 after_attempt([scheduler EXCEPT !.pending = Tail(scheduler.pending)])
          /\ last' = [op |-> "auto_fulfill_reservations", id |-> reservation_id,
                      result |-> IF mark THEN "fulfilled" ELSE "not_pending"]
    /\ UNCHANGED <<resources_by_id, reservation_count, now, uuid_count, reaper, mutexes>>

(* ------------------------------ mutexes -------------------------------- *)

(* The operations as sequences of steps on the two mutexes and the two maps:
   a step acquires or releases a mutex, writes a map, or branches (a loop
   that goes round again or ends, a statement that is skipped). *)
Tasks == {"request", "other_request", "reaper", "scheduler"}

acquire_step(m) == [do |-> "acquire", on |-> m, to |-> 0]

release_step(m) == [do |-> "release", on |-> m, to |-> 0]

write_step(map) == [do |-> "write", on |-> map, to |-> 0]

branch_step(k) == [do |-> "branch", on |-> "", to |-> k]

section(m, body) == <<acquire_step(m)>> \o body \o <<release_step(m)>>

(* a loop whose first step is step base of the operation *)
loop(base, body) ==
    <<branch_step(base + Len(body) + 2)>> \o body \o <<branch_step(base)>>

(* statements, the first of them step base, that the operation may skip *)
optional(base, body) ==
    <<branch_step(base + Len(body) + 1)>> \o body

request_steps(op) ==
    CASE op = "lock_resource" ->
             section("resource_lock", <<write_step("resources_by_id")>>)
      [] op = "unlock_resource" ->
             <<write_step("resources_by_id")>>
      [] op = "extend_resource_lock" ->
             section("resource_lock", <<write_step("resources_by_id")>>)
      [] op = "unlock_resource_by_token" ->
             section("resource_lock", <<write_step("resources_by_id")>>)
      [] op = "lock_resources_by_tags" ->
             section("resource_lock", <<write_step("resources_by_id")>>)
      [] op = "create_reservation" ->
             section("reservation_lock", <<write_step("reservations_by_id")>>)
      [] op = "get_reservation" ->
             section("reservation_lock", <<>>)
      [] op = "claim_reservation" ->
             section("reservation_lock", <<write_step("reservations_by_id")>>)
      [] op = "cancel_reservation" ->
             section("reservation_lock", <<write_step("reservations_by_id")>>)
      [] op = "list_reservations" ->
             section("reservation_lock", <<>>)

RequestOps ==
    {"lock_resource", "unlock_resource", "extend_resource_lock",
     "unlock_resource_by_token", "lock_resources_by_tags", "create_reservation",
     "get_reservation", "claim_reservation", "cancel_reservation", "list_reservations"}

auto_expire_locks_steps ==
    LET snapshot == section("resource_lock", <<>>)
    IN snapshot
       \o loop(Len(snapshot) + 1,
               section("resource_lock", <<write_step("resources_by_id")>>))

write_reservation_steps ==
    section("reservation_lock", <<write_step("reservations_by_id")>>)

(* the cleanup of the fulfilled reservations that unlocks by token inside
   the section on the reservation mutex *)
expire_fulfilled_steps_nested(base) ==
    loop(base,
         <<acquire_step("reservation_lock")>>
         \o loop(base + 2, request_steps("unlock_resource_by_token"))
         \o <<write_step("reservations_by_id"), release_step("reservation_lock")>>)

expire_fulfilled_steps(base) ==
    loop(base,
         loop(base + 1, request_steps("unlock_resource_by_token"))
         \o write_reservation_steps)

fulfill_steps(base) ==
    LET attempt == request_steps("lock_resources_by_tags")
    IN loop(base,
            attempt \o optional(base + 1 + Len(attempt), write_reservation_steps))

auto_fulfill_reservations_steps ==
    LET snapshot == section("reservation_lock", <<>>)
        phase_a == loop(Len(snapshot) + 1, write_reservation_steps)
        phase_b == expire_fulfilled_steps(Len(snapshot) + Len(phase_a) + 1)
        pending == section("reservation_lock", <<>>)
        before_c == snapshot \o phase_a \o phase_b \o pending
    IN before_c \o fulfill_steps(Len(before_c) + 1)

steps(op) ==
    CASE op = "auto_expire_locks" -> auto_expire_locks_steps
      [] op = "auto_fulfill_reservations" -> auto_fulfill_reservations_steps
      [] OTHER -> request_steps(op)

ops_of(task) ==
    CASE task = "reaper" -> {"auto_expire_locks"}
      [] task = "scheduler" -> {"auto_fulfill_reservations"}
      [] OTHER -> RequestOps

not_running == [op |-> "none", step |-> 0]

mutexes_free ==
    [resource_lock |-> "free", reservation_lock |-> "free",
     at |-> [task \in Tasks |-> not_running]]

running(task) == mutexes.at[task] # not_running

current_step(task) == steps(mutexes.at[task].op)[mutexes.at[task].step]

(* the place of the task once it has left its current step for step k *)
moved(task, k) ==
    IF k > Len(steps(mutexes.at[task].op))
    THEN not_running
    ELSE [mutexes.at[task] EXCEPT !.step = k]

start(task, op) ==
    /\ ~running(task)
    /\ mutexes' = [mutexes EXCEPT !.at[task] = [op |-> op, step |-> 1]]
    /\ UNCHANGED catalog_state

acquire(task) ==
    /\ running(task)
    /\ current_step(task).do = "acquire"
    /\ mutexes[current_step(task).on] = "free"
    /\ mutexes' = [mutexes EXCEPT ![current_step(task).on] = task,
                                  !.at[task] = moved(task, mutexes.at[task].step + 1)]
    /\ UNCHANGED catalog_state

release(task) ==
    /\ running(task)
    /\ current_step(task).do = "release"
    /\ mutexes' = [mutexes EXCEPT ![current_step(task).on] = "free",
                                  !.at[task] = moved(task, mutexes.at[task].step + 1)]
    /\ UNCHANGED catalog_state

write(task) ==
    /\ running(task)
    /\ current_step(task).do = "write"
    /\ mutexes' = [mutexes EXCEPT !.at[task] = moved(task, mutexes.at[task].step + 1)]
    /\ UNCHANGED catalog_state

branch(task) ==
    /\ running(task)
    /\ current_step(task).do = "branch"
    /\ \E k \in {mutexes.at[task].step + 1, current_step(task).to} :
           mutexes' = [mutexes EXCEPT !.at[task] = moved(task, k)]
    /\ UNCHANGED catalog_state

(* ------------------------------ clock ---------------------------------- *)

advance_time(d) ==
    /\ idle
    /\ now' = now + d
    /\ last' = [op |-> "advance_time", id |-> d, result |-> "ok"]
    /\ UNCHANGED <<resources_by_id, uuid_count, reaper, reservation_side, mutexes>>

tick ==
    /\ now < MaxTime
    /\ advance_time(1)

second ==
    /\ (now % seconds(ClaimWindow)) + seconds(1) <= MaxTime
    /\ advance_time(seconds(1))

claim_window ==
    /\ now <= MaxTime
    /\ advance_time(seconds(ClaimWindow))

respond ==
    /\ ~idle
    /\ last' = NoOutcome
    /\ UNCHANGED <<resources_by_id, now, uuid_count, reaper, reservation_side, mutexes>>

(* ------------------------------ specification -------------------------- *)

Init ==
    /\ resources_by_id = [i \in ResourceIds |-> Catalog[i]]
    /\ reservations_by_id = <<>>
    /\ reservation_count = 0
    /\ now = 0
    /\ uuid_count = 0
    /\ reaper = reaper_idle
    /\ scheduler = scheduler_idle
    /\ last = NoOutcome
    /\ mutexes = mutexes_free

LockRequest(ids, ttls) ==
    \/ \E resource_id \in ids, ttl \in ttls : lock_resource(resource_id, ttl)
    \/ \E resource_id \in ids, lock_token \in RequestTokens :
           unlock_resource(resource_id, lock_token)
    \/ \E resource_id \in ids, lock_token \in RequestTokens, ttl \in ttls :
           extend_resource_lock(resource_id, lock_token, ttl)

LockNext ==
    \/ LockRequest(RequestIds, TTLValues)
    \/ auto_expire_locks_snapshot
    \/ auto_expire_locks_unlock
    \/ tick
    \/ respond

LockSpec == Init /\ [][LockNext]_vars

ReservationRequest(ttls) ==
    \/ \E tags \in RequestTags, quantity \in 1..MaxQuantity,
          max_wait_time \in 1..MaxWait, ttl \in ttls :
           /\ create_reservation(tags, quantity, max_wait_time, ttl)
           /\ reservation_count' <= MaxReservations
    \/ \E reservation_id \in 1..MaxReservations : claim_reservation(reservation_id)
    \/ \E reservation_id \in 1..MaxReservations : cancel_reservation(reservation_id)

Next ==
    \/ LockRequest(ResourceIds, 1..MaxTTL)
    \/ ReservationRequest(1..MaxTTL)
    \/ auto_expire_locks_snapshot
    \/ auto_expire_locks_unlock
    \/ auto_fulfill_reservations_snapshot
    \/ auto_fulfill_reservations_expire_pending
    \/ auto_fulfill_reservations_unlock
    \/ auto_fulfill_reservations_expire_fulfilled
    \/ auto_fulfill_reservations_list_pending
    \/ auto_fulfill_reservations_lock
    \/ auto_fulfill_reservations_mark
    \/ second
    \/ claim_window
    \/ respond

Spec == Init /\ [][Next]_vars

(* The reservation manager and the fulfillment scheduler on their own: the
   only locks are those the scheduler takes. *)
MaxQueue == 2

QueueIds == 1..(MaxQueue + 1)

QueueNext ==
    \/ \E tags \in RequestTags, quantity \in 1..MaxQuantity,
          max_wait_time \in 1..MaxWait, ttl \in 1..MaxTTL :
           /\ create_reservation(tags, quantity, max_wait_time, ttl)
           /\ reservation_count' <= MaxQueue
    \/ \E reservation_id \in QueueIds : claim_reservation(reservation_id)
    \/ \E reservation_id \in QueueIds : cancel_reservation(reservation_id)
    \/ auto_fulfill_reservations_snapshot
    \/ auto_fulfill_reservations_expire_pending
    \/ auto_fulfill_reservations_unlock
    \/ auto_fulfill_reservations_expire_fulfilled
    \/ auto_fulfill_reservations_list_pending
    \/ auto_fulfill_reservations_lock
    \/ auto_fulfill_reservations_mark
    \/ second
    \/ claim_window
    \/ respond

QueueSpec == Init /\ [][QueueNext]_vars

(* The batch locker called on its own, as the tests call it, on a catalog
   built by hand: it holds a resource without tags, and its first resource
   has a limit half as long as the limit of the others. *)
BatchCatalog ==
    <<Resource(1, <<"a", ",", " ", "b">>, 1),
      Resource(2, <<>>, max_lock_duration_default),
      Resource(3, <<"a">>, max_lock_duration_default)>>

BatchTags == {<<>>, <<TagA>>, <<TagB>>, <<TagA, TagB>>, <<TagZ>>}

BatchInit ==
    /\ resources_by_id = [i \in 1..Len(BatchCatalog) |-> BatchCatalog[i]]
    /\ reservations_by_id = <<>>
    /\ reservation_count = 0
    /\ now = 0
    /\ uuid_count = 0
    /\ reaper = reaper_idle
    /\ scheduler = scheduler_idle
    /\ last = NoOutcome
    /\ mutexes = mutexes_free

BatchNext ==
    \/ \E tags \in BatchTags, quantity \in 1..MaxQuantity, ttl \in TTLValues :
           lock_resources_by_tags(tags, quantity, ttl)
    \/ \E lock_token \in RequestTokens : unlock_resource_by_token(lock_token)
    \/ \E resource_id \in 1..Len(BatchCatalog), ttl \in TTLValues :
           lock_resource(resource_id, ttl)
    \/ tick
    \/ respond

BatchSpec == BatchInit /\ [][BatchNext]_vars

(* Locks are taken and left alone: no client unlocks or extends. The reaper
   task is never cancelled and the event loop runs it whenever its sleep is
   over, whatever the requests in flight; every call returns. *)
ReaperNext ==
    \/ \E resource_id \in ResourceIds, ttl \in TTLValues : lock_resource(resource_id, ttl)
    \/ auto_expire_locks_snapshot
    \/ auto_expire_locks_unlock
    \/ tick
    \/ respond

ReaperSpec ==
    /\ Init
    /\ [][ReaperNext]_vars
    /\ WF_vars(respond)
    /\ SF_vars(auto_expire_locks_snapshot)
    /\ SF_vars(auto_expire_locks_unlock)

(* The waiting line against the resource holders: requests for the tagged
   resources, holders who lock and unlock single resources, and the phase
   of the scheduler that fulfills, within the shortest wait for a
   reservation. *)
MaxFifo == 2

MaxFifoTime == 1

FifoTags == {<<TagA>>, <<TagB>>}

FifoNext ==
    \/ \E tags \in FifoTags, quantity \in 1..MaxQuantity,
          max_wait_time \in 1..MaxWait, ttl \in 1..MaxTTL :
           /\ create_reservation(tags, quantity, max_wait_time, ttl)
           /\ reservation_count' <= MaxFifo
    \/ \E resource_id \in ResourceIds : lock_resource(resource_id, 1)
    \/ \E resource_id \in ResourceIds, lock_token \in IssuedTokens :
           unlock_resource(resource_id, lock_token)
    \/ auto_fulfill_reservations_snapshot
    \/ auto_fulfill_reservations_list_pending
    \/ auto_fulfill_reservations_lock
    \/ auto_fulfill_reservations_mark
    \/ now < MaxFifoTime /\ tick
    \/ respond

FifoSpec == Init /\ [][FifoNext]_vars

(* The tasks of the process stepping through their sections on the two
   mutexes; the maps are left aside. *)
MutexNext ==
    \/ \E task \in Tasks, op \in RequestOps \cup {"auto_expire_locks",
                                                  "auto_fulfill_reservations"} :
           op \in ops_of(task) /\ start(task, op)
    \/ \E task \in Tasks : acquire(task)
    \/ \E task \in Tasks : release(task)
    \/ \E task \in Tasks : write(task)
    \/ \E task \in Tasks : branch(task)

MutexSpec == Init /\ [][MutexNext]_vars

(* The life of a reservation: the requests on reservations against a
   scheduler task that is never cancelled and runs whenever its sleep is
   over, every call returning, and a clock that goes on until each deadline on
   record is reached. Each reservation asks for one resource, so that
   every reservation made can be given its token. *)
LifeReservations == MaxUuid

deadline_ahead(status) ==
    \E id \in DOMAIN reservations_by_id :
        /\ reservations_by_id[id].status = status
        /\ IF status = "pending"
           THEN reservations_by_id[id].expires_at > now
           ELSE reservations_by_id[id].claim_expires_at[1] > now

pending_wait ==
    /\ deadline_ahead("pending")
    /\ advance_time(seconds(1))

claim_wait ==
    /\ deadline_ahead("fulfilled")
    /\ advance_time(seconds(ClaimWindow))

(* the next step of the scheduler task, wherever it is in its tick *)
auto_fulfill_reservations ==
    \/ auto_fulfill_reservations_snapshot
    \/ auto_fulfill_reservations_expire_pending
    \/ auto_fulfill_reservations_unlock
    \/ auto_fulfill_reservations_expire_fulfilled
    \/ auto_fulfill_reservations_list_pending
    \/ auto_fulfill_reservations_lock
    \/ auto_fulfill_reservations_mark

LifeNext ==
    \/ \E tags \in RequestTags, max_wait_time \in 1..MaxWait, ttl \in 1..MaxTTL :
           /\ create_reservation(tags, 1, max_wait_time, ttl)
           /\ reservation_count' <= LifeReservations
    \/ \E reservation_id \in 1..LifeReservations : claim_reservation(reservation_id)
    \/ \E reservation_id \in 1..LifeReservations : cancel_reservation(reservation_id)
    \/ auto_fulfill_reservations_snapshot
    \/ auto_fulfill_reservations_expire_pending
    \/ auto_fulfill_reservations_unlock
    \/ auto_fulfill_reservations_expire_fulfilled
    \/ auto_fulfill_reservations_list_pending
    \/ auto_fulfill_reservations_lock
    \/ auto_fulfill_reservations_mark
    \/ pending_wait
    \/ claim_wait
    \/ respond

LifeSpec ==
    /\ Init
    /\ [][LifeNext]_vars
    /\ WF_vars(respond)
    /\ SF_vars(auto_fulfill_reservations)
    /\ SF_vars(pending_wait)
    /\ SF_vars(claim_wait)

(* The locks the scheduler takes against the cancellation of the
   reservation they were taken for: requests that make and cancel
   reservations, clients that unlock or extend with a token read from the
   list of resources, the scheduler within the claim window of what it
   fulfills, and a reaper task that is never cancelled and runs whenever
   its sleep is over, with a clock that goes on until every deadline on
   record is reached. *)
lock_wait ==
    /\ \E id \in DOMAIN resources_by_id :
           /\ resources_by_id[id].lock_expires_at # None
           /\ resources_by_id[id].lock_expires_at[1] > now
    /\ advance_time(seconds(1))

(* the next step of the reaper task, wherever it is in its tick *)
auto_expire_locks ==
    \/ auto_expire_locks_snapshot
    \/ auto_expire_locks_unlock

LeakNext ==
    \/ \E tags \in RequestTags, quantity \in 1..MaxQuantity,
          max_wait_time \in 1..MaxWait, ttl \in 1..MaxTTL :
           /\ create_reservation(tags, quantity, max_wait_time, ttl)
           /\ reservation_count' <= MaxReservations
    \/ \E reservation_id \in 1..MaxReservations : cancel_reservation(reservation_id)
    \/ \E resource_id \in ResourceIds, lock_token \in IssuedTokens :
           unlock_resource(resource_id, lock_token)
    \/ \E resource_id \in ResourceIds, lock_token \in IssuedTokens, ttl \in 1..MaxTTL :
           extend_resource_lock(resource_id, lock_token, ttl)
    \/ auto_expire_locks_snapshot
    \/ auto_expire_locks_unlock
    \/ auto_fulfill_reservations_snapshot
    \/ auto_fulfill_reservations_expire_pending
    \/ auto_fulfill_reservations_list_pending
    \/ auto_fulfill_reservations_lock
    \/ auto_fulfill_reservations_mark
    \/ lock_wait
    \/ pending_wait
    \/ respond

LeakSpec ==
    /\ Init
    /\ [][LeakNext]_vars
    /\ WF_vars(respond)
    /\ SF_vars(auto_expire_locks)
    /\ SF_vars(lock_wait)

(* ------------------------------ properties ----------------------------- *)

locked(id) == resources_by_id[id].lock_token # EmptyToken

lock_fields(resource) ==
    <<resource.lock_token, resource.lock_details,
      resource.lock_acquired_at, resource.lock_expires_at>>

(* C1: lock exclusivity. A lock_resource call on a resource that carries a
   non-empty token answers ResourceAlreadyLocked and leaves every resource
   as it was, whatever the ttl; hence a call that succeeds found the
   resource unlocked, and between two unlocks at most one call succeeds. *)
C1_LockExclusivity ==
    [][\A resource_id \in ResourceIds, ttl \in TTLValues :
          (lock_resource(resource_id, ttl) /\ locked(resource_id))
              => /\ last'.result = "ResourceAlreadyLocked"
                 /\ resources_by_id' = resources_by_id]_vars

C1_Witness ==
    /\ last.op = "lock_resource"
    /\ last.result = "ResourceAlreadyLocked"
    /\ locked(last.id)

(* C2: invariant I1. In every reachable state every resource has a non-empty
   lock_token exactly when lock_acquired_at and lock_expires_at are both
   set, and an empty one exactly when both are absent. *)
C2_I1 ==
    \A id \in ResourceIds :
        LET resource == resources_by_id[id]
        IN /\ (resource.lock_token # EmptyToken)
                  <=> (resource.lock_acquired_at # None /\ resource.lock_expires_at # None)
           /\ (resource.lock_token = EmptyToken)
                  <=> (resource.lock_acquired_at = None /\ resource.lock_expires_at = None)

(* a lock taken for a reservation has been released by the scheduler *)
C2_Witness ==
    /\ last.op = "unlock_resource_by_token"
    /\ last.result = "ok"
    /\ \E id \in ResourceIds : ~locked(id)

(* C3: invariant I2. In every reachable state every locked resource has
   lock_expires_at - lock_acquired_at <= max_lock_duration. *)
C3_I2 ==
    \A id \in ResourceIds :
        LET resource == resources_by_id[id]
        IN (resource.lock_acquired_at # None /\ resource.lock_expires_at # None)
               => resource.lock_expires_at[1] - resource.lock_acquired_at[1]
                      <= seconds(resource.max_lock_duration)

(* C4: token-authorised unlock. unlock_resource on a locked resource with a
   token other than its current one, the absent token included, answers
   InvalidLockToken and leaves the resource locked as it was. *)
C4_UnlockWrongToken ==
    [][\A resource_id \in ResourceIds, lock_token \in RequestTokens :
          (/\ unlock_resource(resource_id, lock_token)
           /\ locked(resource_id)
           /\ lock_token # resources_by_id[resource_id].lock_token)
              => /\ last'.result = "InvalidLockToken"
                 /\ resources_by_id'[resource_id] = resources_by_id[resource_id]]_vars

C4_Witness ==
    /\ last.op = "unlock_resource"
    /\ last.result = "InvalidLockToken"
    /\ last.id \in ResourceIds
    /\ locked(last.id)
    /\ resources_by_id[last.id].lock_acquired_at # None

(* C5: unlock_resource with the current token of a locked resource succeeds
   and leaves lock_token empty, both timestamps absent and lock_details
   "Resource available". *)
C5_UnlockClears ==
    [][\A resource_id \in ResourceIds, lock_token \in RequestTokens :
          (/\ unlock_resource(resource_id, lock_token)
           /\ locked(resource_id)
           /\ lock_token = resources_by_id[resource_id].lock_token)
              => /\ last'.result = "ok"
                 /\ lock_fields(resources_by_id'[resource_id])
                        = <<EmptyToken, <<"Resource available">>, None, None>>]_vars

C5_Witness ==
    /\ last.op = "unlock_resource"
    /\ last.result = "ok"
    /\ resources_by_id[last.id].lock_details = <<"Resource available">>
    /\ uuid_count > 0

(* C6: unlock_resource on a resource whose lock_token is empty answers
   ResourceAlreadyUnlocked whatever token is supplied and changes nothing;
   so the unlock that follows a successful unlock fails in this way. *)
C6_UnlockUnlocked ==
    [][\A resource_id \in ResourceIds, lock_token \in RequestTokens :
          (unlock_resource(resource_id, lock_token) /\ ~locked(resource_id))
              => /\ last'.result = "ResourceAlreadyUnlocked"
                 /\ resources_by_id' = resources_by_id]_vars

(* the second unlock: the resource was locked once and is unlocked again *)
C6_Witness ==
    /\ last.op = "unlock_resource"
    /\ last.result = "ResourceAlreadyUnlocked"
    /\ ~locked(last.id)
    /\ resources_by_id[last.id].lock_details = <<"Resource available">>
    /\ uuid_count > 0

(* C7: round trip, as far as the controllers decide it. A successful
   unlock_resource leaves lock_token, lock_acquired_at and lock_expires_at
   as they are in a freshly loaded resource, and lock_details as
   "Resource available"; whether that text is the one a freshly loaded
   resource carries is decided by the default of rentabot.models.Resource. *)
C7_RoundTrip ==
    [][\A resource_id \in ResourceIds :
          (/\ last'.op = "unlock_resource"
           /\ last'.id = resource_id
           /\ last'.result = "ok")
              => LET after == resources_by_id'[resource_id]
                     fresh == Catalog[resource_id]
                 IN /\ after.lock_token = fresh.lock_token
                    /\ after.lock_acquired_at = fresh.lock_acquired_at
                    /\ after.lock_expires_at = fresh.lock_expires_at
                    /\ after.lock_details = <<"Resource available">>]_vars

(* the first lock ever taken has been given back *)
C7_Witness ==
    /\ last.op = "unlock_resource"
    /\ last.result = "ok"
    /\ uuid_count = 1
    /\ \A id \in ResourceIds : ~locked(id)

(* C8: a successful extend_resource_lock sets lock_expires_at to
   now + additional_ttl, whatever the expiry was, and leaves lock_token and
   lock_acquired_at as they were. *)
C8_ExtendSets ==
    [][\A resource_id \in ResourceIds, lock_token \in RequestTokens, additional_ttl \in TTLValues :
          (/\ extend_resource_lock(resource_id, lock_token, additional_ttl)
           /\ last'.result = "ok")
              => /\ lock_token = resources_by_id[resource_id].lock_token
                 /\ resources_by_id'[resource_id].lock_expires_at
                        = Some(now + seconds(additional_ttl))
                 /\ resources_by_id'[resource_id].lock_token
                        = resources_by_id[resource_id].lock_token
                 /\ resources_by_id'[resource_id].lock_acquired_at
                        = resources_by_id[resource_id].lock_acquired_at]_vars

(* an extension by zero seconds made after the acquisition has succeeded:
   the expiry of the lock is the present *)
C8_Witness ==
    /\ last.op = "extend_resource_lock"
    /\ last.result = "ok"
    /\ resources_by_id[last.id].lock_expires_at = Some(now)
    /\ resources_by_id[last.id].lock_acquired_at # Some(now)

(* C9: extend_resource_lock answers ResourceAlreadyUnlocked on an unlocked
   resource, InvalidLockToken on a token that is not the current one, and
   InvalidTTL whenever (now + additional_ttl) - lock_acquired_at exceeds
   max_lock_duration; every failure leaves the resource as it was. *)
C9_ExtendFailures ==
    [][\A resource_id \in ResourceIds, lock_token \in RequestTokens, additional_ttl \in TTLValues :
          extend_resource_lock(resource_id, lock_token, additional_ttl)
              => LET resource == resources_by_id[resource_id]
                 IN /\ ~locked(resource_id)
                        => last'.result = "ResourceAlreadyUnlocked"
                    /\ (locked(resource_id) /\ lock_token # resource.lock_token)
                        => last'.result = "InvalidLockToken"
                    /\ (/\ locked(resource_id)
                        /\ lock_token = resource.lock_token
                        /\ (now + seconds(additional_ttl)) - resource.lock_acquired_at[1]
                               > seconds(resource.max_lock_duration))
                        => last'.result = "InvalidTTL"
                    /\ last'.result # "ok"
                        => resources_by_id'[resource_id] = resource]_vars

(* C10: reaper safety. No step of the reaper unlocks a resource whose current
   lock_expires_at is later than the now the tick read, whatever happened
   between the snapshot and the re-check. *)
C10_ReaperSafety ==
    [][\A id \in ResourceIds :
          (/\ last'.op = "auto_expire_locks"
           /\ locked(id)
           /\ resources_by_id'[id].lock_token = EmptyToken)
              => /\ reaper.pc = "unlock"
                 /\ resources_by_id[id].lock_expires_at[1] <= reaper.now]_vars

(* the re-check spared a resource that was in the list of the expired *)
C10_Witness ==
    /\ last.op = "auto_expire_locks"
    /\ last.result = "kept"
    /\ locked(last.id)

(* C11: reaper liveness. When no client unlocks or extends, a resource that
   is locked with lock_expires_at <= now is eventually unlocked by the
   reaper: lock_token empty, both timestamps absent, and lock_details
   beginning "Auto-expired at ". *)
C11_ReaperLiveness ==
    \A id \in ResourceIds :
        (/\ locked(id)
         /\ resources_by_id[id].lock_expires_at # None
         /\ resources_by_id[id].lock_expires_at[1] <= now)
            ~> (/\ ~locked(id)
                /\ Head(resources_by_id[id].lock_details) = "Auto-expired at "
                /\ resources_by_id[id].lock_acquired_at = None
                /\ resources_by_id[id].lock_expires_at = None)

C11_Witness ==
    /\ last.op = "auto_expire_locks"
    /\ last.result = "expired"
    /\ ~locked(last.id)
    /\ Head(resources_by_id[last.id].lock_details) = "Auto-expired at "
    /\ resources_by_id[last.id].lock_expires_at = None

changed_resources ==
    {id \in DOMAIN resources_by_id : resources_by_id'[id] # resources_by_id[id]}

(* C12: the batch lock is all or nothing. A call of lock_resources_by_tags
   either succeeds, and then exactly quantity resources change, each from
   unlocked to the locked record the call returns, or it fails with
   InsufficientResources or InvalidTTL and no resource record changes. *)
C12_BatchAllOrNothing ==
    [][\A tags \in BatchTags, quantity \in 1..MaxQuantity, ttl \in TTLValues :
          (/\ last'.op = "lock_resources_by_tags"
           /\ last'.id = quantity
           /\ lock_resources_by_tags(tags, quantity, ttl))
              => LET returned == locked_resources(tags, quantity, ttl)
                 IN IF last'.result = "ok"
                    THEN /\ Len(returned) = quantity
                         /\ Cardinality(changed_resources) = quantity
                         /\ changed_resources = {returned[i].id : i \in 1..quantity}
                         /\ \A i \in 1..quantity :
                                /\ ~locked(returned[i].id)
                                /\ returned[i].lock_token # EmptyToken
                                /\ resources_by_id'[returned[i].id] = returned[i]
                    ELSE /\ last'.result \in {"InsufficientResources", "InvalidTTL"}
                         /\ changed_resources = {}]_vars

(* a group of two has been locked by one call *)
C12_Witness ==
    /\ last.op = "lock_resources_by_tags"
    /\ last.result = "ok"
    /\ last.id = 2
    /\ Cardinality({id \in DOMAIN resources_by_id :
                       resources_by_id[id].lock_details
                           = <<"Resource locked (reservation)">>}) = 2

(* C13: lock_resources_by_tags locks only resources that were unlocked and
   whose parsed tags contain every required tag, a resource without tags
   never; the resources it returns are pairwise distinct and each carries a
   token of its own that no call had issued before. *)
C13_BatchSelection ==
    [][\A tags \in BatchTags, quantity \in 1..MaxQuantity, ttl \in TTLValues :
          (/\ last'.op = "lock_resources_by_tags"
           /\ last'.result = "ok"
           /\ lock_resources_by_tags(tags, quantity, ttl))
              => LET returned == locked_resources(tags, quantity, ttl)
                 IN /\ \A id \in changed_resources :
                           /\ resources_by_id[id].lock_token = EmptyToken
                           /\ resources_by_id[id].tags # <<>>
                           /\ set(tags) \subseteq parsed_tags(resources_by_id[id].tags)
                           /\ \E i \in 1..Len(returned) : returned[i].id = id
                    /\ \A i \in 1..Len(returned) :
                           /\ returned[i].lock_token \notin IssuedTokens \cup {EmptyToken}
                           /\ \A id \in DOMAIN resources_by_id :
                                  resources_by_id[id].lock_token # returned[i].lock_token
                           /\ resources_by_id[returned[i].id].lock_token = EmptyToken
                    /\ \A i, j \in 1..Len(returned) :
                           i # j => /\ returned[i].id # returned[j].id
                                    /\ returned[i].lock_token # returned[j].lock_token]_vars

(* one call has locked the two tagged resources and left the resource
   without tags, which is unlocked, aside *)
C13_Witness ==
    /\ last.op = "lock_resources_by_tags"
    /\ last.result = "ok"
    /\ \E id \in DOMAIN resources_by_id :
           /\ resources_by_id[id].tags = <<>>
           /\ ~locked(id)
    /\ \A id \in DOMAIN resources_by_id :
           resources_by_id[id].tags # <<>>
               => resources_by_id[id].lock_details = <<"Resource locked (reservation)">>
    /\ \A id1, id2 \in DOMAIN resources_by_id :
           (locked(id1) /\ locked(id2) /\ id1 # id2)
               => resources_by_id[id1].lock_token # resources_by_id[id2].lock_token

matching_resources(tags) ==
    {id \in DOMAIN resources_by_id :
        set(tags) \subseteq parsed_tags(resources_by_id[id].tags)}

(* C14: create_reservation answers InvalidReservationTags to an empty list
   of tags and ResourceNotFound to tags that no resource of the catalog
   carries; in both cases the reservations map is left as it was. *)
C14_CreateRejects ==
    [][\A tags \in RequestTags, quantity \in 1..MaxQuantity,
          max_wait_time \in 1..MaxWait, ttl \in 1..MaxTTL :
          create_reservation(tags, quantity, max_wait_time, ttl)
              => /\ tags = <<>>
                     => /\ last'.result = "InvalidReservationTags"
                        /\ reservations_by_id' = reservations_by_id
                 /\ (tags # <<>> /\ matching_resources(tags) = {})
                     => /\ last'.result = "ResourceNotFound"
                        /\ reservations_by_id' = reservations_by_id]_vars

(* a refusal has been given while a reservation was on record *)
C14_Witness ==
    /\ last.op = "create_reservation"
    /\ last.result \in {"InvalidReservationTags", "ResourceNotFound"}
    /\ DOMAIN reservations_by_id # {}

compatible_resources(tags, ttl) ==
    {id \in matching_resources(tags) : resources_by_id[id].max_lock_duration >= ttl}

(* C15: create_reservation answers InvalidTTL, and records no reservation,
   whenever some resource carries the required tags but fewer than quantity
   of those have max_lock_duration >= ttl. *)
C15_CreateInvalidTTL ==
    [][\A tags \in RequestTags, quantity \in 1..MaxQuantity,
          max_wait_time \in 1..MaxWait, ttl \in 1..MaxTTL :
          (/\ create_reservation(tags, quantity, max_wait_time, ttl)
           /\ tags # <<>>
           /\ matching_resources(tags) # {}
           /\ Cardinality(compatible_resources(tags, ttl)) < quantity)
              => /\ last'.result = "InvalidTTL"
                 /\ reservations_by_id' = reservations_by_id]_vars

(* C16: create_reservation looks at the catalog, not at what is free. When
   at least quantity resources carry the tags and allow the ttl, the
   reservation is accepted whatever is locked: it is recorded under a new
   id as pending, with created_at = now, expires_at = now + max_wait_time
   and empty resource_ids and lock_tokens, and nothing else changes. *)
C16_CreateAccepted ==
    [][\A tags \in RequestTags, quantity \in 1..MaxQuantity,
          max_wait_time \in 1..MaxWait, ttl \in 1..MaxTTL :
          (/\ create_reservation(tags, quantity, max_wait_time, ttl)
           /\ tags # <<>>
           /\ Cardinality(compatible_resources(tags, ttl)) >= quantity)
              => /\ last'.result = "ok"
                 /\ last'.id \notin DOMAIN reservations_by_id
                 /\ DOMAIN reservations_by_id' = DOMAIN reservations_by_id \cup {last'.id}
                 /\ \A id \in DOMAIN reservations_by_id :
                        reservations_by_id'[id] = reservations_by_id[id]
                 /\ LET reservation == reservations_by_id'[last'.id]
                    IN /\ reservation.status = "pending"
                       /\ reservation.tags = tags
                       /\ reservation.quantity = quantity
                       /\ reservation.ttl = ttl
                       /\ reservation.created_at = now
                       /\ reservation.expires_at = now + seconds(max_wait_time)
                       /\ reservation.resource_ids = <<>>
                       /\ reservation.lock_tokens = <<>>
                 /\ resources_by_id' = resources_by_id]_vars

(* a reservation has been accepted while every resource was locked *)
C16_Witness ==
    /\ last.op = "create_reservation"
    /\ last.result = "ok"
    /\ \A id \in DOMAIN resources_by_id : locked(id)
    /\ reservations_by_id[last.id].status = "pending"
    /\ reservations_by_id[last.id].created_at = now

pending_ids ==
    {id \in DOMAIN reservations_by_id : reservations_by_id[id].status = "pending"}

(* the pending reservations that come before reservation id: created
   earlier, or at the same instant and recorded earlier *)
ahead_of(id) ==
    {other \in pending_ids :
        \/ reservations_by_id[other].created_at < reservations_by_id[id].created_at
        \/ /\ reservations_by_id[other].created_at = reservations_by_id[id].created_at
           /\ other < id}

(* C17: queue position. get_reservation and list_reservations give every
   pending reservation its rank by created_at, counted from 1, among the
   reservations pending at that moment, and no position to a fulfilled or
   claimed one; so the positions of the k pending reservations are 1..k. *)
C17_QueuePosition ==
    /\ \A id \in DOMAIN reservations_by_id :
           /\ get_reservation(id).position_in_queue =
                  IF id \in pending_ids THEN Some(Cardinality(ahead_of(id)) + 1) ELSE None
           /\ \E i \in 1..Len(list_reservations) :
                  list_reservations[i] = get_reservation(id)
    /\ Len(list_reservations) = Cardinality(DOMAIN reservations_by_id)
    /\ {get_reservation(id).position_in_queue : id \in pending_ids}
           = {Some(k) : k \in 1..Cardinality(pending_ids)}

(* the head of a queue of two has been cancelled and the reservation that
   was second is the first *)
C17_Witness ==
    /\ last.op = "cancel_reservation"
    /\ last.result = "ok"
    /\ \E id \in pending_ids :
           /\ id > last.id
           /\ get_reservation(id).position_in_queue = Some(1)

status_of(reservation_id) ==
    IF reservation_id \in DOMAIN reservations_by_id
    THEN reservations_by_id[reservation_id].status
    ELSE "absent"

(* C18: cancel_reservation deletes a pending reservation and no other; on a
   fulfilled or claimed one it answers ReservationCannotBeCancelled and on
   an unknown id ReservationNotFound, leaving every reservation as it was;
   it never changes a resource. *)
C18_Cancel ==
    [][\A reservation_id \in QueueIds :
          cancel_reservation(reservation_id)
              => /\ status_of(reservation_id) = "pending"
                     => /\ last'.result = "ok"
                        /\ reservations_by_id' = remove(reservations_by_id, reservation_id)
                        /\ reservation_id \notin DOMAIN reservations_by_id'
                 /\ status_of(reservation_id) \in {"fulfilled", "claimed"}
                     => /\ last'.result = "ReservationCannotBeCancelled"
                        /\ reservations_by_id' = reservations_by_id
                 /\ status_of(reservation_id) = "absent"
                     => /\ last'.result = "ReservationNotFound"
                        /\ reservations_by_id' = reservations_by_id
                 /\ resources_by_id' = resources_by_id]_vars

(* the cancellation of a fulfilled reservation has been refused *)
C18_Witness ==
    /\ last.op = "cancel_reservation"
    /\ last.result = "ReservationCannotBeCancelled"
    /\ status_of(last.id) = "fulfilled"
    /\ \E id \in DOMAIN resources_by_id : locked(id)

(* C19: claim_reservation answers ReservationNotFulfilled on a pending
   reservation, ReservationNotFound on an absent or claimed one, and
   ReservationClaimExpired on a fulfilled one once now >= claim_expires_at,
   whether or not the scheduler has removed it; every failure leaves the
   reservations as they were. *)
C19_ClaimFailures ==
    [][\A reservation_id \in QueueIds :
          claim_reservation(reservation_id)
              => /\ status_of(reservation_id) = "pending"
                     => last'.result = "ReservationNotFulfilled"
                 /\ status_of(reservation_id) \in {"absent", "claimed"}
                     => last'.result = "ReservationNotFound"
                 /\ (/\ status_of(reservation_id) = "fulfilled"
                     /\ now >= reservations_by_id[reservation_id].claim_expires_at[1])
                     => last'.result = "ReservationClaimExpired"
                 /\ last'.result # "ok"
                     => reservations_by_id' = reservations_by_id]_vars

(* a claim has been refused at the very instant the window closed, the
   reservation being still on record *)
C19_Witness ==
    /\ last.op = "claim_reservation"
    /\ last.result = "ReservationClaimExpired"
    /\ status_of(last.id) = "fulfilled"
    /\ reservations_by_id[last.id].claim_expires_at = Some(now)

(* C20: a successful claim_reservation is made on a fulfilled reservation
   and changes its status to claimed and its claimed_at to now, nothing
   else: resource_ids and lock_tokens stay, the other reservations stay,
   and no resource record changes. *)
C20_ClaimFrame ==
    [][\A reservation_id \in QueueIds :
          (claim_reservation(reservation_id) /\ last'.result = "ok")
              => /\ status_of(reservation_id) = "fulfilled"
                 /\ reservations_by_id' =
                        [reservations_by_id EXCEPT
                            ![reservation_id].status = "claimed",
                            ![reservation_id].claimed_at = Some(now)]
                 /\ reservations_by_id'[reservation_id].resource_ids
                        = reservations_by_id[reservation_id].resource_ids
                 /\ reservations_by_id'[reservation_id].lock_tokens
                        = reservations_by_id[reservation_id].lock_tokens
                 /\ resources_by_id' = resources_by_id]_vars

(* a reservation of two resources has been claimed and holds their tokens *)
C20_Witness ==
    /\ last.op = "claim_reservation"
    /\ last.result = "ok"
    /\ status_of(last.id) = "claimed"
    /\ reservations_by_id[last.id].claimed_at = Some(now)
    /\ Len(reservations_by_id[last.id].lock_tokens) = 2
    /\ \A i \in 1..2 :
           resources_by_id[reservations_by_id[last.id].resource_ids[i]].lock_token
               = reservations_by_id[last.id].lock_tokens[i]

just_claimed ==
    /\ last.op = "claim_reservation"
    /\ last.result = "ok"

token_of(reservation, i) == resources_by_id[reservation.resource_ids[i]].lock_token

(* C21 as stated: right after a successful claim_reservation every resource
   the reservation lists is locked under the token listed at the same
   index, whatever happened between the fulfillment and the claim. *)
C21_ClaimOwnsLocks ==
    just_claimed
        => LET reservation == reservations_by_id[last.id]
           IN \A i \in 1..Len(reservation.resource_ids) :
                  /\ token_of(reservation, i) # EmptyToken
                  /\ token_of(reservation, i) = reservation.lock_tokens[i]

(* C21 as amended: right after a successful claim_reservation every resource
   the reservation lists carries the token listed at the same index, unless
   it has been unlocked since the fulfillment: it is then unlocked, or
   locked under a token issued after the listed one. *)
C21_ClaimOwnsLocksUnlessUnlocked ==
    just_claimed
        => LET reservation == reservations_by_id[last.id]
           IN /\ Len(reservation.lock_tokens) = Len(reservation.resource_ids)
              /\ \A i \in 1..Len(reservation.resource_ids) :
                     /\ reservation.lock_tokens[i] \in IssuedTokens
                     /\ \/ token_of(reservation, i) = reservation.lock_tokens[i]
                        \/ token_of(reservation, i) = EmptyToken
                        \/ token_of(reservation, i) > reservation.lock_tokens[i]

(* a reservation of two resources has been claimed, one of them still under
   its listed token and the other unlocked since the fulfillment *)
C21_Witness ==
    /\ just_claimed
    /\ Len(reservations_by_id[last.id].resource_ids) = 2
    /\ \E i, j \in 1..2 :
           /\ token_of(reservations_by_id[last.id], i)
                  = reservations_by_id[last.id].lock_tokens[i]
           /\ token_of(reservations_by_id[last.id], j) = EmptyToken

(* C22: invariant R1. A pending reservation has empty resource_ids and
   lock_tokens; a fulfilled or claimed reservation lists exactly quantity
   resources and quantity tokens. *)
C22_R1 ==
    \A id \in DOMAIN reservations_by_id :
        LET reservation == reservations_by_id[id]
        IN IF reservation.status = "pending"
           THEN /\ reservation.resource_ids = <<>>
                /\ reservation.lock_tokens = <<>>
           ELSE /\ reservation.status \in {"fulfilled", "claimed"}
                /\ Len(reservation.resource_ids) = reservation.quantity
                /\ Len(reservation.lock_tokens) = reservation.quantity

(* a claimed reservation of one resource, taken while a second resource
   matched and was free, stands beside a pending reservation *)
C22_Witness ==
    \E id1, id2 \in DOMAIN reservations_by_id :
        /\ reservations_by_id[id1].status = "claimed"
        /\ reservations_by_id[id1].quantity = 1
        /\ Len(reservations_by_id[id1].resource_ids) = 1
        /\ reservations_by_id[id2].status = "pending"
        /\ \E id \in DOMAIN resources_by_id :
               /\ ~locked(id)
               /\ has_all_tags(resources_by_id[id], reservations_by_id[id1].tags)

(* C23: status progression R3. In every step a reservation that stays on
   record keeps its status or moves pending -> fulfilled or fulfilled ->
   claimed; a reservation is deleted only when pending, by cancel_reservation
   or by the scheduler's pending-expiry, or when fulfilled, by the
   scheduler's claim-expiry; a claimed reservation is never changed in
   status nor deleted; an id that enters the map is a fresh one, so a
   deleted id never comes back. *)
C23_R3 ==
    [][/\ \A id \in DOMAIN reservations_by_id :
              IF id \in DOMAIN reservations_by_id'
              THEN <<reservations_by_id[id].status, reservations_by_id'[id].status>>
                       \in {<<"pending", "pending">>, <<"pending", "fulfilled">>,
                            <<"fulfilled", "fulfilled">>, <<"fulfilled", "claimed">>,
                            <<"claimed", "claimed">>}
              ELSE \/ /\ reservations_by_id[id].status = "pending"
                      /\ \/ last' = [op |-> "cancel_reservation", id |-> id,
                                     result |-> "ok"]
                         \/ last' = [op |-> "auto_fulfill_reservations", id |-> id,
                                     result |-> "pending_expired"]
                   \/ /\ reservations_by_id[id].status = "fulfilled"
                      /\ last' = [op |-> "auto_fulfill_reservations", id |-> id,
                                  result |-> "fulfilled_expired"]
       /\ DOMAIN reservations_by_id \subseteq 1..reservation_count
       /\ reservation_count' >= reservation_count
       /\ \A id \in (DOMAIN reservations_by_id') \ (DOMAIN reservations_by_id) :
              id > reservation_count]_vars

(* the scheduler has deleted a fulfilled reservation whose claim window had
   closed while a claimed reservation stays on record; the deleted id and
   those of the record are below the next id *)
C23_Witness ==
    /\ last.op = "auto_fulfill_reservations"
    /\ last.result = "fulfilled_expired"
    /\ last.id \notin DOMAIN reservations_by_id
    /\ last.id <= reservation_count
    /\ \E id \in DOMAIN reservations_by_id : reservations_by_id[id].status = "claimed"

held_reservations ==
    {id \in DOMAIN reservations_by_id :
        reservations_by_id[id].status \in {"fulfilled", "claimed"}}

(* a step has marked the reservation id fulfilled *)
fulfilled_by_step(id) ==
    /\ id \in DOMAIN reservations_by_id
    /\ id \in DOMAIN reservations_by_id'
    /\ reservations_by_id[id].status = "pending"
    /\ reservations_by_id'[id].status = "fulfilled"

(* no step takes a token a reservation lists away from its resource other
   than by unlocking the resource *)
held_until_unlocked ==
    \A id \in held_reservations :
        LET reservation == reservations_by_id[id]
        IN \A i \in 1..Len(reservation.resource_ids) :
               (/\ token_of(reservation, i) = reservation.lock_tokens[i]
                /\ resources_by_id'[reservation.resource_ids[i]].lock_token
                       # reservation.lock_tokens[i])
                   => ~locked(reservation.resource_ids[i])'

(* C24 as stated: invariant R2. At the step that marks a reservation
   fulfilled every listed token is the current token of the listed resource;
   from then on the resource resource_ids[i] of a fulfilled or claimed
   reservation stops carrying lock_tokens[i] only by being unlocked. *)
C24_R2 ==
    [][/\ \A id \in DOMAIN reservations_by_id' :
              fulfilled_by_step(id)
                  => LET reservation == reservations_by_id'[id]
                     IN \A i \in 1..Len(reservation.resource_ids) :
                            /\ reservation.lock_tokens[i] # EmptyToken
                            /\ resources_by_id'[reservation.resource_ids[i]].lock_token
                                   = reservation.lock_tokens[i]
       /\ held_until_unlocked]_vars

(* C24 as amended: at the step that marks a reservation fulfilled every
   listed token is the one the batch lock gave the listed resource, and is
   its current token unless the resource has been unlocked since the batch
   lock (it is then unlocked, or locked under a token issued later); from
   then on the resource resource_ids[i] of a fulfilled or claimed
   reservation stops carrying lock_tokens[i] only by being unlocked. *)
C24_R2UntilUnlocked ==
    [][/\ \A id \in DOMAIN reservations_by_id' :
              fulfilled_by_step(id)
                  => LET reservation == reservations_by_id'[id]
                     IN \A i \in 1..Len(reservation.resource_ids) :
                            LET token ==
                                  resources_by_id'[reservation.resource_ids[i]].lock_token
                            IN /\ reservation.lock_tokens[i] \in IssuedTokens
                               /\ reservation.lock_tokens[i]
                                      = scheduler.locked[i].lock_token
                               /\ reservation.resource_ids[i] = scheduler.locked[i].id
                               /\ \/ token = reservation.lock_tokens[i]
                                  \/ token = EmptyToken
                                  \/ token > reservation.lock_tokens[i]
       /\ held_until_unlocked]_vars

(* a reservation of two resources has just been marked fulfilled: one
   resource carries its listed token, the other was unlocked between the
   batch lock and the marking *)
C24_Witness ==
    /\ last.op = "auto_fulfill_reservations"
    /\ last.result = "fulfilled"
    /\ Len(reservations_by_id[last.id].resource_ids) = 2
    /\ \E i, j \in 1..2 :
           /\ token_of(reservations_by_id[last.id], i)
                  = reservations_by_id[last.id].lock_tokens[i]
           /\ token_of(reservations_by_id[last.id], j) = EmptyToken

overdue_pending ==
    {id \in DOMAIN reservations_by_id :
        /\ reservations_by_id[id].status = "pending"
        /\ reservations_by_id[id].expires_at <= scheduler.now}

phase_a_step ==
    /\ last'.op = "auto_fulfill_reservations"
    /\ last'.result \in {"pending_expired", "pending_kept"}

(* C25: phase A. Within a tick of the scheduler every reservation that is
   pending with expires_at <= the tick's now is deleted unless it was
   cancelled in between: such a reservation is awaiting its deletion while
   the phase runs and none is left once the phase is over. A step of the
   phase deletes the reservation it handles when that is still on record,
   which is then pending with expires_at <= the tick's now, and deletes or
   changes no other. *)
C25_PhaseA ==
    [][/\ scheduler.pc = "expire_pending"
           => \A id \in overdue_pending :
                  \E i \in 1..Len(scheduler.expired_pending) :
                      scheduler.expired_pending[i] = id
       /\ scheduler.pc \in {"expire_fulfilled", "list_pending", "fulfill"}
           => overdue_pending = {}
       /\ phase_a_step
           => IF last'.id \in DOMAIN reservations_by_id
              THEN /\ last'.id \in overdue_pending
                   /\ last'.result = "pending_expired"
                   /\ reservations_by_id' = remove(reservations_by_id, last'.id)
              ELSE /\ last'.result = "pending_kept"
                   /\ reservations_by_id' = reservations_by_id]_vars

(* phase A has deleted a pending reservation whose wait had ended at the
   tick's now and has left a pending one whose wait ends later *)
C25_Witness ==
    /\ last.op = "auto_fulfill_reservations"
    /\ last.result = "pending_expired"
    /\ last.id \notin DOMAIN reservations_by_id
    /\ \E id \in DOMAIN reservations_by_id :
           /\ reservations_by_id[id].status = "pending"
           /\ reservations_by_id[id].expires_at > scheduler.now
           /\ reservations_by_id[id].created_at <= scheduler.now

overdue_fulfilled ==
    {id \in DOMAIN reservations_by_id :
        /\ reservations_by_id[id].status = "fulfilled"
        /\ reservations_by_id[id].claim_expires_at[1] <= scheduler.now}

holders(token) ==
    {id \in DOMAIN resources_by_id : resources_by_id[id].lock_token = token}

(* C26: phase B. Within a tick of the scheduler every reservation that is
   fulfilled with claim_expires_at <= the tick's now is awaiting its cleanup
   while the cleanup runs and none is left once it is over. The cleanup of a
   reservation unlocks, token by token, the resource that still carries the
   token and no other, then deletes the reservation: at that step the
   reservation leaves the record and no resource carries one of its
   tokens. *)
C26_PhaseB ==
    [][/\ scheduler.pc \in {"expire_pending", "expire_fulfilled"}
           => \A id \in overdue_fulfilled :
                  \E i \in 1..Len(scheduler.expired_fulfilled) :
                      scheduler.expired_fulfilled[i].reservation_id = id
       /\ scheduler.pc \in {"list_pending", "fulfill"}
           => overdue_fulfilled = {}
       /\ (scheduler.pc = "expire_fulfilled" /\ last'.op = "unlock_resource_by_token")
           => LET token == Head(Head(scheduler.expired_fulfilled).lock_tokens)
              IN /\ \A id \in DOMAIN resources_by_id :
                        IF id \in holders(token)
                        THEN /\ ~locked(id)'
                             /\ resources_by_id'[id].lock_expires_at = None
                        ELSE resources_by_id'[id] = resources_by_id[id]
                 /\ last'.result = IF holders(token) = {} THEN "ResourceNotFound" ELSE "ok"
                 /\ reservations_by_id' = reservations_by_id
       /\ (/\ last'.op = "auto_fulfill_reservations"
           /\ last'.result \in {"fulfilled_expired", "fulfilled_kept"})
           => /\ last'.id \in overdue_fulfilled
              /\ last'.result = "fulfilled_expired"
              /\ reservations_by_id' = remove(reservations_by_id, last'.id)
              /\ resources_by_id' = resources_by_id
              /\ \A i \in 1..Len(reservations_by_id[last'.id].lock_tokens) :
                     holders(reservations_by_id[last'.id].lock_tokens[i]) = {}]_vars

(* the scheduler has deleted an unclaimed reservation after its claim
   window and every resource is unlocked, the last one by the scheduler *)
C26_Witness ==
    /\ last.op = "auto_fulfill_reservations"
    /\ last.result = "fulfilled_expired"
    /\ last.id \notin DOMAIN reservations_by_id
    /\ scheduler.now >= seconds(ClaimWindow)
    /\ uuid_count = 2
    /\ \A id \in DOMAIN resources_by_id : ~locked(id)
    /\ \E id \in DOMAIN resources_by_id :
           resources_by_id[id].lock_details = <<"Resource available">>

same_request(a, b) ==
    /\ a.tags = b.tags
    /\ a.quantity = b.quantity
    /\ a.ttl = b.ttl

created_before(a, b) ==
    \/ a.created_at < b.created_at
    \/ a.created_at = b.created_at /\ a.reservation_id < b.reservation_id

(* C27: FIFO within a tick. The scheduler attempts the pending reservations
   of a tick in ascending order of created_at, and no step marks a
   reservation fulfilled while a reservation created before it, with the
   same tags, quantity and ttl, is left pending; so of three identical
   requests for one resource with one matching resource free, the first is
   the one fulfilled. *)
C27_FifoWithinTick ==
    [][/\ \A i, j \in 1..Len(scheduler.pending) :
              i < j => created_before(scheduler.pending[i], scheduler.pending[j])
       /\ \A b \in DOMAIN reservations_by_id' :
              fulfilled_by_step(b)
                  => /\ b = Head(scheduler.pending).reservation_id
                     /\ \A a \in DOMAIN reservations_by_id' :
                            ~(/\ reservations_by_id'[a].status = "pending"
                              /\ same_request(reservations_by_id'[a],
                                              reservations_by_id'[b])
                              /\ created_before(reservations_by_id'[a],
                                                reservations_by_id'[b]))]_vars

free_matching(tags) ==
    {id \in matching_resources(tags) : ~locked(id)}

first_free(tags, quantity) ==
    {id \in free_matching(tags) :
        Cardinality({other \in free_matching(tags) : other < id}) < quantity}

attempt_step ==
    /\ scheduler.pc = "fulfill"
    /\ last'.op = "lock_resources_by_tags"

attempt_skipped ==
    /\ resources_by_id' = resources_by_id
    /\ scheduler'.pending = Tail(scheduler.pending)
    /\ Tail(scheduler.pending) # <<>>
           => /\ scheduler'.pc = "fulfill"
              /\ scheduler'.now = scheduler.now

attempt_locked(reservation) ==
    /\ last'.result = "ok"
    /\ changed_resources = first_free(reservation.tags, reservation.quantity)
    /\ \A id \in changed_resources : locked(id)'
    /\ scheduler'.pending = scheduler.pending

mark_step ==
    /\ last'.op = "auto_fulfill_reservations"
    /\ last'.result \in {"fulfilled", "not_pending"}

marked ==
    LET id == Head(scheduler.pending).reservation_id
    IN /\ last'.id = id
       /\ IF id \in pending_ids
          THEN /\ reservations_by_id'[id].status = "fulfilled"
               /\ last'.result = "fulfilled"
          ELSE reservations_by_id' = reservations_by_id
       /\ scheduler'.pending = Tail(scheduler.pending)
       /\ Tail(scheduler.pending) # <<>>
              => /\ scheduler'.pc = "fulfill"
                 /\ scheduler'.now = scheduler.now

(* the reservations that were ahead of the head of the tick's list, whose
   batch lock in this tick failed with InsufficientResources and that are
   still pending *)
skipped_older ==
    {id \in scheduler.kept_waiting :
        /\ still_pending(id)
        /\ created_before(reservations_by_id[id], Head(scheduler.pending))}

(* C28: no head-of-line blocking. When the batch lock for a pending
   reservation fails with InsufficientResources the reservation stays
   pending and unchanged and the tick goes on to the reservations after it;
   a younger reservation that the tick attempts after such a failure is
   locked for whenever at least quantity matching resources are unlocked,
   and is then marked fulfilled when still pending. *)
C28_NoHeadOfLineBlocking ==
    [][/\ (attempt_step /\ last'.result = "InsufficientResources")
           => /\ reservations_by_id' = reservations_by_id
              /\ attempt_skipped
       /\ (attempt_step /\ skipped_older # {})
           => LET reservation == Head(scheduler.pending)
              IN Cardinality(free_matching(reservation.tags)) >= reservation.quantity
                     => attempt_locked(reservation)
       /\ (mark_step /\ skipped_older # {}) => marked]_vars

mutex_of(map) ==
    IF map = "resources_by_id" THEN "resource_lock" ELSE "reservation_lock"

writing(task) == running(task) /\ current_step(task).do = "write"

acquiring(task, m) ==
    /\ running(task)
    /\ current_step(task).do = "acquire"
    /\ current_step(task).on = m

blocked(task) ==
    /\ running(task)
    /\ current_step(task).do = "acquire"
    /\ mutexes[current_step(task).on] # "free"

(* C29: mutex discipline. A task that is about to write the resources map
   holds the resource mutex, and a task that is about to write the
   reservations map holds the reservation mutex: no write of either map
   happens with its mutex free or in the hands of another task. *)
C29_MutexDiscipline ==
    \A task \in Tasks :
        writing(task) => mutexes[mutex_of(current_step(task).on)] = task

(* C30: lock ordering and deadlock freedom. No task acquires the resource
   mutex while it holds the reservation mutex, and there is no set of
   tasks each of which waits for a mutex held by a task of the set: the
   request handlers, the reaper and the scheduler are never blocked on
   each other's mutexes (nor a task on a mutex it holds itself). *)
C30_LockOrdering ==
    /\ \A task \in Tasks :
           acquiring(task, "resource_lock") => mutexes.reservation_lock # task
    /\ \A waiting \in SUBSET Tasks :
           waiting # {}
               => \E task \in waiting :
                      ~(blocked(task) /\ mutexes[current_step(task).on] \in waiting)

(* the scheduler, past its sections on the reservation mutex and holding
   neither mutex, waits for the resource mutex that the reaper holds while
   a request holds the reservation mutex *)
C30_Witness ==
    /\ acquiring("scheduler", "resource_lock")
    /\ mutexes.resource_lock = "reaper"
    /\ mutexes.reservation_lock = "request"
    /\ blocked("scheduler")

unlocked_by_step(id) == locked(id) /\ ~locked(id)'

locked_by_step(id) == ~locked(id) /\ locked(id)'

(* the step is a call of unlock_resource on the resource id, made with the
   token the resource carries *)
unlock_with_matching_token(id) ==
    /\ last'.op = "unlock_resource"
    /\ last'.id = id
    /\ last'.result = "ok"
    /\ \E lock_token \in RequestTokens : unlock_resource(id, lock_token)
    /\ \A lock_token \in RequestTokens :
           unlock_resource(id, lock_token)
               => lock_token = resources_by_id[id].lock_token

(* the step is the reaper unlocking the resource id, whose lock ended at or
   before the now the reaper read, itself not later than the clock *)
reaper_unlock(id) ==
    /\ last'.op = "auto_expire_locks"
    /\ last'.id = id
    /\ reaper.pc = "unlock"
    /\ resources_by_id[id].lock_expires_at # None
    /\ resources_by_id[id].lock_expires_at[1] <= reaper.now
    /\ reaper.now <= now

(* the step is the scheduler unlocking by token the resource id for a
   reservation that is on record, fulfilled, past its claim window and
   lists the token of the resource *)
cleanup_unlock(id) ==
    /\ last'.op = "unlock_resource_by_token"
    /\ scheduler.pc = "expire_fulfilled"
    /\ LET res_id == Head(scheduler.expired_fulfilled).reservation_id
       IN /\ last'.id = res_id
          /\ res_id \in DOMAIN reservations_by_id
          /\ reservations_by_id[res_id].status = "fulfilled"
          /\ reservations_by_id[res_id].claim_expires_at[1] <= scheduler.now
          /\ scheduler.now <= now
          /\ resources_by_id[id].lock_token
                 \in set(reservations_by_id[res_id].lock_tokens)

(* C31: invariant I3 as a step property. Every step in which a resource
   goes from locked to unlocked is an unlock with the token it carries, the
   reaper at or after its lock_expires_at, or the scheduler releasing the
   locks of a fulfilled reservation whose claim window has expired; every
   step in which a resource goes from unlocked to locked is a successful
   lock_resource on it or a successful lock_resources_by_tags. *)
C31_I3 ==
    [][\A id \in ResourceIds :
          /\ unlocked_by_step(id)
                 => \/ unlock_with_matching_token(id)
                    \/ reaper_unlock(id)
                    \/ cleanup_unlock(id)
          /\ locked_by_step(id)
                 => /\ last'.result = "ok"
                    /\ \/ last'.op = "lock_resource" /\ last'.id = id
                       \/ last'.op = "lock_resources_by_tags"]_vars

(* the scheduler has just unlocked a resource of a reservation whose claim
   window expired, after a client unlocked the other with its token *)
C31_Witness ==
    /\ last.op = "unlock_resource_by_token"
    /\ last.result = "ok"
    /\ scheduler.pc = "expire_fulfilled"
    /\ last.id \in DOMAIN reservations_by_id
    /\ Len(reservations_by_id[last.id].lock_tokens) = 2
    /\ \A id \in ResourceIds : ~locked(id)
    /\ \E id \in ResourceIds :
           resources_by_id[id].lock_details = <<"Resource available">>

(* C32: reservation lifecycle liveness. With the scheduler running its
   ticks and the clock going on, every pending reservation ends up
   fulfilled, claimed or off the record (cancelled, or deleted after its
   expires_at), and every fulfilled reservation ends up claimed or off the
   record (deleted after its claim_expires_at): none stays pending or
   fulfilled forever. *)
C32_Lifecycle ==
    \A id \in 1..LifeReservations :
        /\ (status_of(id) = "pending") ~> (status_of(id) # "pending")
        /\ (status_of(id) = "fulfilled") ~> (status_of(id) # "fulfilled")

(* the scheduler has deleted a reservation it had fulfilled and nobody
   claimed, in a tick after the claim window *)
C32_Witness ==
    /\ last.op = "auto_fulfill_reservations"
    /\ last.result = "fulfilled_expired"
    /\ last.id \notin DOMAIN reservations_by_id
    /\ last.id <= reservation_count
    /\ now >= seconds(ClaimWindow)

(* the resources a step has changed, in the order of their ids *)
changed_in_order == ascending(changed_resources)

(* C33: the fulfillment step with its re-check. The batch lock that succeeds
   for the reservation at the head of the tick's list hands the scheduler
   the resources it has just locked and the time it ended. The write that
   follows changes the reservation only if it is still on record and
   pending: it then becomes fulfilled with fulfilled_at that time,
   claim_expires_at = fulfilled_at + 60 s, and resource_ids / lock_tokens
   the ids and tokens of the resources just locked, its other fields kept;
   otherwise the record of reservations is left as it is, so a reservation
   cancelled in between does not come back. No other step makes a
   reservation fulfilled. *)
C33_FulfillmentStep ==
    [][/\ (attempt_step /\ last'.result = "ok")
           => /\ Len(scheduler'.locked) = Head(scheduler.pending).quantity
              /\ scheduler'.fulfilled_at = now
              /\ [i \in 1..Len(scheduler'.locked) |-> scheduler'.locked[i].id]
                     = changed_in_order
              /\ \A i \in 1..Len(scheduler'.locked) :
                     /\ ~locked(scheduler'.locked[i].id)
                     /\ scheduler'.locked[i].lock_token \in IssuedTokens' \ IssuedTokens
                     /\ resources_by_id'[scheduler'.locked[i].id] = scheduler'.locked[i]
       /\ mark_step
           => LET id == Head(scheduler.pending).reservation_id
              IN /\ last'.id = id
                 /\ resources_by_id' = resources_by_id
                 /\ IF status_of(id) = "pending"
                    THEN /\ last'.result = "fulfilled"
                         /\ reservations_by_id' =
                                [reservations_by_id EXCEPT
                                    ![id].status = "fulfilled",
                                    ![id].fulfilled_at = Some(scheduler.fulfilled_at),
                                    ![id].claim_expires_at =
                                        Some(scheduler.fulfilled_at + seconds(ClaimWindow)),
                                    ![id].resource_ids =
                                        [i \in 1..Len(scheduler.locked) |->
                                             scheduler.locked[i].id],
                                    ![id].lock_tokens =
                                        [i \in 1..Len(scheduler.locked) |->
                                             scheduler.locked[i].lock_token]]
                    ELSE /\ last'.result = "not_pending"
                         /\ reservations_by_id' = reservations_by_id
       /\ \A id \in DOMAIN reservations_by_id' :
              (/\ status_of(id) # "fulfilled"
               /\ reservations_by_id'[id].status = "fulfilled")
                  => mark_step /\ status_of(id) = "pending"]_vars

(* the scheduler has marked a reservation fulfilled some time after its
   batch lock ended: the claim window runs from the end of the batch lock *)
C33_Witness ==
    /\ last.op = "auto_fulfill_reservations"
    /\ last.result = "fulfilled"
    /\ status_of(last.id) = "fulfilled"
    /\ reservations_by_id[last.id].fulfilled_at[1] < now
    /\ reservations_by_id[last.id].claim_expires_at[1]
           = reservations_by_id[last.id].fulfilled_at[1] + seconds(ClaimWindow)
    /\ Len(reservations_by_id[last.id].lock_tokens) = reservations_by_id[last.id].quantity

in_reservation(token) ==
    \E id \in DOMAIN reservations_by_id :
        token \in set(reservations_by_id[id].lock_tokens)

(* the token is one of those the scheduler holds between its batch lock
   and the write of the reservation *)
in_flight(token) ==
    /\ scheduler.pc = "fulfill"
    /\ \E i \in 1..Len(scheduler.locked) : scheduler.locked[i].lock_token = token

(* the resource carries a token that a batch lock gave it and that neither
   a reservation nor the scheduler has on record *)
leaked(id) ==
    /\ locked(id)
    /\ resources_by_id[id].lock_details = <<"Resource locked (reservation)">>
    /\ ~in_reservation(resources_by_id[id].lock_token)
    /\ ~in_flight(resources_by_id[id].lock_token)

(* the write of the scheduler finds the reservation cancelled: no resource
   and no reservation changes, and every resource that still carries a
   token of the batch lock is left locked under a token on no record *)
cancelled_before_mark ==
    (mark_step /\ last'.result = "not_pending")
        => /\ resources_by_id' = resources_by_id
           /\ reservations_by_id' = reservations_by_id
           /\ \A id \in ResourceIds :
                  (\E i \in 1..Len(scheduler.locked) :
                       /\ scheduler.locked[i].id = id
                       /\ resources_by_id[id].lock_token = scheduler.locked[i].lock_token)
                      => leaked(id)'

leaked_until_expiry ==
    \A id \in ResourceIds : leaked(id) ~> ~locked(id)

(* C34 as stated: the cancel-during-fulfillment race. When the reservation
   is cancelled between the batch lock and the write, the resources just
   locked stay locked under tokens no reservation lists, and such a
   resource is unlocked by nothing but the reaper finding lock_expires_at
   <= now, which ends up happening. *)
C34_CancelRace ==
    /\ [][/\ cancelled_before_mark
          /\ \A id \in ResourceIds :
                 (leaked(id) /\ unlocked_by_step(id)) => reaper_unlock(id)]_vars
    /\ leaked_until_expiry

(* C34 as amended: as above, and such a resource is unlocked by nothing but
   the reaper finding lock_expires_at <= now or a call of unlock_resource
   with the token it carries, never by the scheduler; one or the other ends
   up happening. *)
C34_CancelRaceOrUnlock ==
    /\ [][/\ cancelled_before_mark
          /\ \A id \in ResourceIds :
                 (leaked(id) /\ unlocked_by_step(id))
                     => \/ reaper_unlock(id)
                        \/ unlock_with_matching_token(id)]_vars
    /\ leaked_until_expiry

(* the reservation was cancelled between the batch lock and the write and
   the reaper has just unlocked the last of the two resources locked for
   it, the other one still showing the lock of the scheduler's release or
   of the reaper *)
C34_Witness ==
    /\ last.op = "auto_expire_locks"
    /\ last.result = "expired"
    /\ reservations_by_id = <<>>
    /\ reservation_count = 1
    /\ uuid_count = 2
    /\ \A id \in ResourceIds :
           /\ ~locked(id)
           /\ Head(resources_by_id[id].lock_details) = "Auto-expired at "

(* the unlocked resources that carry tags, all the required ones among them *)
candidates(tags) ==
    {id \in DOMAIN resources_by_id :
        /\ ~locked(id)
        /\ resources_by_id[id].tags # <<>>
        /\ set(tags) \subseteq parsed_tags(resources_by_id[id].tags)}

lowest(ids, quantity) ==
    {id \in ids : Cardinality({other \in ids : other < id}) < quantity}

(* C35: the candidates of lock_resources_by_tags. A call that finds at
   least quantity unlocked resources matching the tags considers the
   quantity of them with the lowest ids and no other: when one of these has
   max_lock_duration < ttl the call fails with InvalidTTL and locks
   nothing, whatever other matching resources are unlocked; otherwise it
   locks exactly these. *)
C35_CandidateSelection ==
    [][\A tags \in BatchTags, quantity \in 1..MaxQuantity, ttl \in TTLValues :
          (/\ last'.op = "lock_resources_by_tags"
           /\ last'.id = quantity
           /\ lock_resources_by_tags(tags, quantity, ttl)
           /\ Cardinality(candidates(tags)) >= quantity)
              => LET first == lowest(candidates(tags), quantity)
                 IN IF \E id \in first : resources_by_id[id].max_lock_duration < ttl
                    THEN /\ last'.result = "InvalidTTL"
                         /\ changed_resources = {}
                    ELSE /\ last'.result = "ok"
                         /\ changed_resources = first
                         /\ \A id \in first : locked(id)']_vars

(* a call for one resource has been refused with InvalidTTL because of the
   unlocked resource with the lowest id that carries the tags, and has
   locked nothing, while another resource that carries the same tags, with
   a higher id and a limit long enough for a ttl the first one refuses, is
   unlocked too *)
C35_Witness ==
    /\ last.op = "lock_resources_by_tags"
    /\ last.result = "InvalidTTL"
    /\ last.id = 1
    /\ \A id \in DOMAIN resources_by_id : ~locked(id)
    /\ \E first \in candidates(<<TagA>>), other \in candidates(<<TagA>>) :
           /\ lowest(candidates(<<TagA>>), 1) = {first}
           /\ other > first
           /\ resources_by_id[other].max_lock_duration
                  > resources_by_id[first].max_lock_duration

(* the scheduler is about to unlock by token for the reservation at the
   head of its list of fulfilled reservations to clean up *)
cleanup_unlock_step ==
    /\ scheduler.pc = "expire_fulfilled"
    /\ last'.op = "unlock_resource_by_token"

cleanup_delete_step ==
    /\ scheduler.pc = "expire_fulfilled"
    /\ last'.op = "auto_fulfill_reservations"

(* C36: phase B tolerates locks already released. When no resource carries
   the token the scheduler unlocks by, the call answers ResourceNotFound
   and changes no resource, so that a lock taken since under another token
   stays as it is; the scheduler goes on with the next token of the same
   reservation, and once the tokens are exhausted it deletes the
   reservation, changing no resource. *)
C36_PhaseBTolerates ==
    [][/\ cleanup_unlock_step
           => LET reservation == Head(scheduler.expired_fulfilled)
                  token == Head(reservation.lock_tokens)
              IN /\ last'.id = reservation.reservation_id
                 /\ holders(token) = {}
                        => /\ last'.result = "ResourceNotFound"
                           /\ resources_by_id' = resources_by_id
                 /\ reservations_by_id' = reservations_by_id
                 /\ scheduler'.pc = "expire_fulfilled"
                 /\ scheduler'.expired_fulfilled =
                        [scheduler.expired_fulfilled EXCEPT
                            ![1].lock_tokens = Tail(reservation.lock_tokens)]
       /\ cleanup_delete_step
           => LET reservation == Head(scheduler.expired_fulfilled)
              IN /\ reservation.lock_tokens = <<>>
                 /\ last'.id = reservation.reservation_id
                 /\ status_of(last'.id) = "fulfilled"
                 /\ reservations_by_id' = remove(reservations_by_id, last'.id)
                 /\ resources_by_id' = resources_by_id]_vars

(* the scheduler, cleaning up an unclaimed reservation, has just been
   answered ResourceNotFound: the resource the reservation lists was
   unlocked by its holder and locked again by a client, whose lock it
   carries *)
C36_Witness ==
    /\ last.op = "unlock_resource_by_token"
    /\ last.result = "ResourceNotFound"
    /\ scheduler.pc = "expire_fulfilled"
    /\ status_of(last.id) = "fulfilled"
    /\ \E i \in 1..Len(reservations_by_id[last.id].resource_ids) :
           /\ token_of(reservations_by_id[last.id], i)
                  > reservations_by_id[last.id].lock_tokens[i]
           /\ resources_by_id[reservations_by_id[last.id].resource_ids[i]].lock_details
                  = <<"Resource locked">>

(* the tokens the resources carry *)
tokens_in_use ==
    {resources_by_id[id].lock_token : id \in {r \in ResourceIds : locked(r)}}

(* C37: token uniqueness. In every reachable state no two resources carry
   the same non-empty token, every token carried was issued by the process,
   and the search of unlock_resource_by_token finds at most one resource
   for a token; a step that gives a resource a token gives it one that was
   never issued before, to that resource alone. *)
C37_TokenUniqueness ==
    /\ [](/\ \A id1, id2 \in ResourceIds :
                (locked(id1) /\ locked(id2) /\ id1 # id2)
                    => resources_by_id[id1].lock_token # resources_by_id[id2].lock_token
          /\ tokens_in_use \subseteq IssuedTokens
          /\ \A token \in IssuedTokens : Len(resource_with_token(token)) <= 1)
    /\ [][\A id \in ResourceIds :
             resources_by_id'[id].lock_token
                     \notin {resources_by_id[id].lock_token, EmptyToken}
                 => /\ resources_by_id'[id].lock_token \in IssuedTokens' \ IssuedTokens
                    /\ \A other \in ResourceIds \ {id} :
                           resources_by_id'[other].lock_token
                               # resources_by_id'[id].lock_token]_vars

(* the scheduler has locked two resources in one batch, each under its own
   token, the only tokens issued so far *)
C37_Witness ==
    /\ last.op = "lock_resources_by_tags"
    /\ last.result = "ok"
    /\ scheduler.pc = "fulfill"
    /\ Len(scheduler.locked) = 2
    /\ tokens_in_use = {1, 2}
    /\ IssuedTokens = {1, 2}

(* the token was issued and no resource carries it any more: the lock it
   stood for has been released *)
stale(token) ==
    /\ token \in IssuedTokens
    /\ holders(token) = {}

(* C38: a stale token gives no authority. Once the lock a token stood for
   has been released, by unlock, by the reaper or by the scheduler, a call
   of unlock_resource or extend_resource_lock with it on a resource that is
   locked again answers InvalidLockToken, and the scheduler's
   unlock_resource_by_token with it answers ResourceNotFound; none changes
   a resource, so the lock of the new holder stays as it is. *)
C38_StaleToken ==
    [][\A lock_token \in IssuedTokens :
          stale(lock_token)
              => /\ \A id \in ResourceIds :
                        (/\ last'.op = "unlock_resource"
                         /\ last'.id = id
                         /\ locked(id)
                         /\ unlock_resource(id, lock_token))
                            => /\ last'.result = "InvalidLockToken"
                               /\ resources_by_id' = resources_by_id
                 /\ \A id \in ResourceIds, ttl \in 1..MaxTTL :
                        (/\ last'.op = "extend_resource_lock"
                         /\ last'.id = id
                         /\ locked(id)
                         /\ extend_resource_lock(id, lock_token, ttl))
                            => /\ last'.result = "InvalidLockToken"
                               /\ resources_by_id' = resources_by_id
                 /\ (/\ cleanup_unlock_step
                     /\ Head(Head(scheduler.expired_fulfilled).lock_tokens) = lock_token)
                        => /\ last'.result = "ResourceNotFound"
                           /\ resources_by_id' = resources_by_id]_vars

(* a call of extend_resource_lock on a resource locked under the second
   token has been refused, the first token being carried by no resource
   any more; the lock is as it was taken *)
C38_Witness ==
    /\ last.op = "extend_resource_lock"
    /\ last.result = "InvalidLockToken"
    /\ stale(1)
    /\ resources_by_id[last.id].lock_token = 2
    /\ resources_by_id[last.id].lock_details = <<"Resource locked">>
    /\ resources_by_id[last.id].lock_acquired_at # None
    /\ resources_by_id[last.id].lock_expires_at[1] > resources_by_id[last.id].lock_acquired_at[1]

claimed_reservations ==
    {id \in DOMAIN reservations_by_id : reservations_by_id[id].status = "claimed"}

(* C39: the claim against the expiry of the claim window. Whatever the
   interleaving of the claims with the ticks of the scheduler, the cleanup
   of phase B works on reservations that are still fulfilled: it never
   unlocks by token for a reservation that has been claimed and its
   re-check never finds the reservation claimed or gone. A claimed
   reservation stays on record as it is, and no unlock by token of the
   scheduler unlocks a resource that carries one of its tokens. *)
C39_ClaimVersusExpiry ==
    [][/\ cleanup_unlock_step
           => status_of(Head(scheduler.expired_fulfilled).reservation_id) = "fulfilled"
       /\ cleanup_delete_step
           => /\ status_of(Head(scheduler.expired_fulfilled).reservation_id) = "fulfilled"
              /\ last'.result = "fulfilled_expired"
       /\ \A id \in claimed_reservations :
              /\ id \in DOMAIN reservations_by_id'
              /\ reservations_by_id'[id] = reservations_by_id[id]
              /\ last'.op = "unlock_resource_by_token"
                     => \A i \in 1..Len(reservations_by_id[id].resource_ids) :
                            token_of(reservations_by_id[id], i)
                                    = reservations_by_id[id].lock_tokens[i]
                                => locked(reservations_by_id[id].resource_ids[i])']_vars

(* a claim has succeeded while the scheduler was in the middle of the
   cleanup of another reservation, whose window had expired *)
C39_Witness ==
    /\ last.op = "claim_reservation"
    /\ last.result = "ok"
    /\ status_of(last.id) = "claimed"
    /\ scheduler.pc = "expire_fulfilled"
    /\ reservations_by_id[last.id].claim_expires_at[1] > scheduler.now
    /\ status_of(Head(scheduler.expired_fulfilled).reservation_id) = "fulfilled"

(* the scheduler wakes up and takes its snapshot *)
tick_start ==
    /\ scheduler.pc = "sleep"
    /\ last'.op = "auto_fulfill_reservations"
    /\ last'.result = "snapshot"

list_step ==
    /\ scheduler.pc = "list_pending"
    /\ last'.op = "auto_fulfill_reservations"

(* C40: a reservation that is pending with expires_at <= now when a tick of
   the scheduler starts is not fulfilled by that tick. The tick puts it on
   its list of reservations to delete; the list of pending reservations
   that phase C builds afterwards holds only reservations whose expires_at
   is later than the now of the tick, so the tick makes no batch lock for
   an earlier one and marks no earlier one fulfilled. *)
C40_ExpiredNeverFulfilled ==
    [][/\ tick_start
           => \A id \in DOMAIN reservations_by_id :
                  (/\ reservations_by_id[id].status = "pending"
                   /\ reservations_by_id[id].expires_at <= now)
                      => /\ scheduler'.pc = "expire_pending"
                         /\ scheduler'.now = now
                         /\ id \in set(scheduler'.expired_pending)
       /\ list_step
           => \A i \in 1..Len(scheduler'.pending) :
                  scheduler'.pending[i].expires_at > scheduler.now
       /\ attempt_step
           => /\ Head(scheduler.pending).expires_at > scheduler.now
              /\ last'.id = Head(scheduler.pending).reservation_id
       /\ \A id \in DOMAIN reservations_by_id :
              fulfilled_by_step(id)
                  => reservations_by_id[id].expires_at > scheduler.now]_vars

(* the tick has deleted a reservation whose wait had ended when it started
   and goes on to its list of pending reservations: no resource is or was
   locked *)
C40_Witness ==
    /\ last.op = "auto_fulfill_reservations"
    /\ last.result = "pending_expired"
    /\ last.id \notin DOMAIN reservations_by_id
    /\ scheduler.pc = "list_pending"
    /\ scheduler.now >= seconds(1)
    /\ uuid_count = 0
    /\ \A id \in ResourceIds : ~locked(id)

====
